---------------------------- MODULE Spec2Model ----------------------------
(***************************************************************************)
(* PBxplore: scoring of Protein Block (PB) sequences with a substitution   *)
(* matrix, construction of the normalised distance matrix, hierarchical    *)
(* clustering through the R backend (PBlib.py), and the stand-alone        *)
(* clustering program (PBclust.py).                                        *)
(*                                                                         *)
(* These specifications share the variables of this module:                 *)
(*   SpecScore  PBlib.compute_score_by_position on one pair of sequences   *)
(*   SpecDist   PBlib.distance_matrix, one pairwise scoring per step       *)
(*   SpecClust  PBlib.hclust: script, backend run, parsing of the answer   *)
(*   SpecBackend  PBlib.hclust when any program answers to the command R    *)
(*   SpecProg   the PBclust.py program, stage by stage                     *)
(*   SpecLoad   PBlib.load_substitution_matrix, one row of the check a step *)
(*   SpecCompute  compute_score of PBclust.py on one pair of sequences      *)
(*   SpecDigit  PBlib.matrix_to_single_digit on one matrix                  *)
(* A specification leaves the variables of the others idle.                *)
(***************************************************************************)
EXTENDS Integers, Sequences, FiniteSets, TLC

VARIABLES
    \* --- compute_score_by_position (SpecScore)
    score_mat,      \* the substitution matrix argument
    seq1,           \* first sequence argument
    seq2,           \* second sequence argument
    score_result,   \* outcome of the call; status "pending" before the call
    \* --- distance_matrix (SpecDist)
    sequences,        \* the list of sequences (1-based; Python index i is i + 1)
    substitution_mat, \* the substitution matrix
    dm_i,             \* loop variable i (0-based)
    dm_j,             \* loop variable j (0-based)
    distance_mat,     \* cells written so far: <<i, j>> -> score; flattened in place
    dm_pc,            \* "loop", "filled", "flat", "done" or "failed"
    dm_result,        \* outcome of the call; status "pending" until it ends
    dm_scored,        \* number of calls of substitution_score that returned
    \* --- hclust (SpecClust)
    hc_distance_mat,  \* the distance matrix argument: <<i, j>> -> [num, den]
    nclusters,        \* the number of clusters asked for
    hc_pc,            \* "start", "script", "ran", "done" or "failed"
    R_matrix,         \* the matrix text of the script, in thousandths
    proc,             \* what the R process gave back: [out, err, code]
    hc_result,        \* outcome of the call; status "pending" until it ends
    backend_calls,    \* number of R processes started
    method_arg,       \* the method the caller of hclust passes, NotGiven if none
    R_method,         \* the method written in the script, "" before it is built
    np_printoptions,  \* the print options of numpy, global to the process
    \* --- the PBclust.py program (SpecProg)
    argv,             \* the command line as optparse returns it
    options,          \* the options object; clusters_nb is rewritten by the program
    matrix_file,      \* the file PBs_substitution_matrix.dat
    pg_pc,            \* the stage the program is at; "end" or "exit" when it is over
    pg_error,         \* "" or the error the program stopped with
    pb_seq,           \* the sequences read: a list of [label, sequence]
    substitution_matrix, \* the matrix loaded, <<>> before
    pg_distance_mat,  \* distance_mat of the program, <<>> before it is built
    dist_written,     \* whether the .PB.dist file has been written
    pg_proc,          \* what the R process gave back
    pg_backend_calls, \* number of R processes started
    clust_file,       \* the lines of the .PB.clust file, <<>> while not written
    pg_files_read,    \* number of calls of read_fasta that returned
    R_script,         \* what the program puts in its R script, <<>> before
    \* --- load_substitution_matrix (SpecLoad)
    lm_file,          \* the matrix file as numpy.loadtxt parses it
    lm_mat,           \* mat, <<>> before loadtxt returns
    lm_i,             \* the row the symmetry loop is at
    lm_pc,            \* "loadtxt", "assert", "loop", "done" or "failed"
    lm_result,        \* outcome of the call; status "pending" until it ends
    \* --- PBclust.compute_score on its own (SpecCompute)
    cs_seq1,          \* first sequence argument
    cs_seq2,          \* second sequence argument
    cs_result,        \* outcome of the call; status "pending" before the call
    \* --- matrix_to_single_digit (SpecDigit)
    sd_matrix,        \* the matrix argument: <<i, j>> -> similarity score
    sd_result         \* outcome of the call; status "pending" before the call

scoreVars == <<score_mat, seq1, seq2, score_result>>

distVars == <<sequences, substitution_mat, dm_i, dm_j, distance_mat, dm_pc,
              dm_result, dm_scored>>

clustVars == <<hc_distance_mat, nclusters, hc_pc, R_matrix, proc, hc_result,
               backend_calls, method_arg, R_method, np_printoptions>>

progVars == <<argv, options, matrix_file, pg_pc, pg_error, pb_seq,
              substitution_matrix, pg_distance_mat, dist_written, pg_proc,
              pg_backend_calls, clust_file, pg_files_read, R_script>>

loadVars == <<lm_file, lm_mat, lm_i, lm_pc, lm_result>>

computeVars == <<cs_seq1, cs_seq2, cs_result>>

digitVars == <<sd_matrix, sd_result>>

vars == <<scoreVars, distVars, clustVars, progVars, loadVars, computeVars, digitVars>>

----------------------------------------------------------------------------
(* Bounds of the model *)

\* longest sequence handed to compute_score_by_position
MaxScoreLen == 2

\* largest number of sequences handed to distance_matrix
MaxSeqs == 3

\* largest number of sequences behind a distance matrix handed to hclust
MaxItems == 3

\* largest number of files on the command line of PBclust.py
MaxFiles == 3

\* largest number of sequences in one file
MaxFileSeqs == 2

\* largest difference between 16 and the number of rows or of columns of a
\* matrix file handed to load_substitution_matrix
MaxSizeGap == 1

\* largest number of sequences in the files of one command line
MaxProgSeqs == 3

\* largest number of rows of a matrix handed to matrix_to_single_digit
MaxDigitDim == 2

\* values a substitution matrix entry is drawn from
ScoreVals == {0 - 1, 0, 2}

----------------------------------------------------------------------------
(* Data: PBlib.py *)

\* NAMES = 'abcdefghijklmnop'
NAMES == <<"a", "b", "c", "d", "e", "f", "g", "h",
           "i", "j", "k", "l", "m", "n", "o", "p">>

\* symbols that occur in the sequences of the model: two PB letters, the
\* dummy block in both cases, and a symbol that is no PB
ScoreSymbols == {"a", "b", "z", "Z", "x"}

\* pb in NAMES
InNames(pb) == \E k \in 1..Len(NAMES) : NAMES[k] = pb

\* the position of pb in NAMES counted from 1
NamesIndex_OneBased(pb) == CHOOSE k \in 1..Len(NAMES) : NAMES[k] = pb

\* NAMES.index(pb): 0-based position of pb in NAMES
NamesIndex(pb) == (CHOOSE k \in 1..Len(NAMES) : NAMES[k] = pb) - 1

\* pb.lower() on the symbols of the model
Lower(pb) == CASE pb = "Z" -> "z"
               [] pb = "A" -> "a"
               [] pb = "B" -> "b"
               [] OTHER -> pb

\* A 16 x 16 substitution matrix, rows and columns 0..15 in NAMES order.
\* (a,a) is aa, (b,b) is bb; the other diagonal entries repeat aa, the
\* entries above the diagonal are ab and those below it are ba.
SubstMatrix(aa, ab, ba, bb) ==
    [i \in 0..15 |-> [j \in 0..15 |->
        IF i = j THEN (IF i = 1 THEN bb ELSE aa)
        ELSE IF i < j THEN ab ELSE ba]]

\* the symmetric matrices load_substitution_matrix accepts
SymMats == {SubstMatrix(aa, ab, ab, bb) : aa \in ScoreVals, ab \in ScoreVals, bb \in ScoreVals}

\* every matrix a caller can hand to the scoring functions
AllMats == {SubstMatrix(aa, ab, ba, bb) :
              aa \in ScoreVals, ab \in ScoreVals, ba \in ScoreVals, bb \in ScoreVals}

\* all sequences over syms of length at most n
SeqsUpTo(syms, n) == UNION {[1..m -> syms] : m \in 0..n}

----------------------------------------------------------------------------
(* PBlib.compute_score_by_position *)

Min2(x, y) == IF x <= y THEN x ELSE y

\* zip(seq1, seq2): the number of pairs
ZipLen(s, t) == Min2(Len(s), Len(t))

\* PositionScore with the dummy block recognised in lower case only
PositionScore_CaseSensitive(mat, pb1, pb2) ==
    IF "z" \in {pb1, pb2}
    THEN [ok |-> TRUE, val |-> 0, invalid |-> <<>>]
    ELSE IF InNames(pb1) /\ InNames(pb2)
    THEN [ok |-> TRUE, val |-> mat[NamesIndex(pb1)][NamesIndex(pb2)], invalid |-> <<>>]
    ELSE [ok |-> FALSE, val |-> 0,
          invalid |-> SelectSeq(<<pb1, pb2>>, LAMBDA pb : ~InNames(pb))]

\* PositionScore reporting only the first invalid symbol of the position
PositionScore_FirstInvalidOnly(mat, pb1, pb2) ==
    IF "z" \in {Lower(pb1), Lower(pb2)}
    THEN [ok |-> TRUE, val |-> 0, invalid |-> <<>>]
    ELSE IF InNames(pb1) /\ InNames(pb2)
    THEN [ok |-> TRUE, val |-> mat[NamesIndex(pb1)][NamesIndex(pb2)], invalid |-> <<>>]
    ELSE [ok |-> FALSE, val |-> 0,
          invalid |-> <<IF InNames(pb1) THEN pb2 ELSE pb1>>]

\* PositionScore reading the matrix at the block of seq1 for both indices
PositionScore_FirstBlockTwice(mat, pb1, pb2) ==
    IF "z" \in {Lower(pb1), Lower(pb2)}
    THEN [ok |-> TRUE, val |-> 0, invalid |-> <<>>]
    ELSE IF InNames(pb1) /\ InNames(pb2)
    THEN [ok |-> TRUE, val |-> mat[NamesIndex(pb1)][NamesIndex(pb1)], invalid |-> <<>>]
    ELSE [ok |-> FALSE, val |-> 0,
          invalid |-> SelectSeq(<<pb1, pb2>>, LAMBDA pb : ~InNames(pb))]

\* The body of the for loop at one position: the score appended, or the
\* InvalidBlockError raised with the invalid symbols of the position.
PositionScore(mat, pb1, pb2) ==
    IF "z" \in {Lower(pb1), Lower(pb2)}
    THEN [ok |-> TRUE, val |-> 0, invalid |-> <<>>]
    ELSE IF InNames(pb1) /\ InNames(pb2)
    THEN [ok |-> TRUE, val |-> mat[NamesIndex(pb1)][NamesIndex(pb2)], invalid |-> <<>>]
    ELSE [ok |-> FALSE, val |-> 0,
          invalid |-> SelectSeq(<<pb1, pb2>>, LAMBDA pb : ~InNames(pb))]

\* The for loop from position p on, with the scores accumulated so far.
RECURSIVE ScoreLoop(_, _, _, _, _)
ScoreLoop(mat, s, t, p, acc) ==
    IF p > ZipLen(s, t)
    THEN [status |-> "ok", score |-> acc, block |-> <<>>, pos |-> 0]
    ELSE LET r == PositionScore(mat, s[p], t[p])
         IN  IF r.ok
             THEN ScoreLoop(mat, s, t, p + 1, Append(acc, r.val))
             ELSE [status |-> "InvalidBlockError", score |-> <<>>,
                   block |-> r.invalid, pos |-> p]

\* the assert on the two lengths compiled away
SameLength_NoAssert(s, t) == TRUE

\* the assert on the two lengths
SameLength(s, t) == Len(s) = Len(t)

compute_score_by_position(mat, s, t) ==
    IF ~SameLength(s, t)
    THEN [status |-> "AssertionError", score |-> <<>>, block |-> <<>>, pos |-> 0]
    ELSE ScoreLoop(mat, s, t, 1, <<>>)

Pending == [status |-> "pending", score |-> <<>>, block |-> <<>>, pos |-> 0]

----------------------------------------------------------------------------
(* PBlib.substitution_score and PBlib.distance_matrix *)

Cells(n) == (0..(n - 1)) \X (0..(n - 1))

RECURSIVE SumSeq(_)
SumSeq(s) == IF s = <<>> THEN 0 ELSE Head(s) + SumSeq(Tail(s))

SetMax(S) == CHOOSE x \in S : \A y \in S : x >= y

SetMin(S) == CHOOSE x \in S : \A y \in S : x <= y

\* sum(compute_score_by_position(...)); an exception of the callee propagates
substitution_score(mat, seqA, seqB) ==
    LET r == compute_score_by_position(mat, seqA, seqB)
    IN  [status |-> r.status,
         total  |-> IF r.status = "ok" THEN SumSeq(r.score) ELSE 0]

\* sequences the callers of distance_matrix are drawn from: the empty
\* sequence, PBs, dummy blocks, a symbol that is no PB, lengths 0 to 2
SequencePool ==
    { <<>>, <<"a">>, <<"b">>, <<"z">>, <<"x">>,
      <<"a", "b">>, <<"a", "z">>, <<"z", "a">> }

SequenceLists == UNION {[1..n -> SequencePool] : n \in 0..MaxSeqs}

\* the two assignments of the inner loop with the lower triangle left
\* as allocated (zero) instead of mirrored
StoreScore_NoMirror(dm, i, j, score) ==
    (<<i, j>> :> score) @@ (<<j, i>> :> (IF i = j THEN score ELSE 0)) @@ dm

\* distance_mat[i, j] = score; distance_mat[j, i] = score
StoreScore(dm, i, j, score) ==
    (<<i, j>> :> score) @@ (<<j, i>> :> score) @@ dm

\* the inner loop restarting at column 0 in every row
NextPair_FullRows(i, j, n) ==
    IF j + 1 < n THEN <<i, j + 1>> ELSE <<i + 1, 0>>

\* the pair scored after (i, j): for j in i..n-1 inside for i in 0..n-1
NextPair(i, j, n) ==
    IF j + 1 < n THEN <<i, j + 1>> ELSE <<i + 1, i + 1>>

\* the diagonal set to its smallest value
DiagonalFill_Min(dm, n) == SetMin({dm[<<i, i>>] : i \in 0..(n - 1)})

\* numpy.max(distance_mat.diagonal())
DiagonalFill(dm, n) == SetMax({dm[<<i, i>>] : i \in 0..(n - 1)})

\* numpy.fill_diagonal(distance_mat, v)
FillDiagonal(dm, v) == [c \in DOMAIN dm |-> IF c[1] = c[2] THEN v ELSE dm[c]]

MatMin(dm) == SetMin({dm[c] : c \in DOMAIN dm})

MatMax(dm) == SetMax({dm[c] : c \in DOMAIN dm})

\* 1 - (x - mini)/(maxi - mini) as the exact fraction num/den
Distance(x, mini, maxi) ==
    [num |-> (maxi - mini) - (x - mini), den |-> maxi - mini]

\* the three asserts on the normalised matrix
RangeAsserts(d, n) ==
    /\ \A c \in DOMAIN d : d[c].num >= 0
    /\ \A c \in DOMAIN d : d[c].num <= d[c].den
    /\ \A i \in 0..(n - 1) : d[<<i, i>>].num = 0

NoMatrix == <<>>

\* Normalise with the division guarded: when maxi = mini every distance is
\* taken to be 0 and the matrix is returned
Normalise_ZeroRangeGuarded(flat, n) ==
    LET mini == MatMin(flat)
        maxi == MatMax(flat)
        d    == [c \in DOMAIN flat |-> Distance(flat[c], mini, maxi)]
    IN  IF maxi = mini
        THEN [status |-> "ok", matrix |-> [c \in DOMAIN flat |-> [num |-> 0, den |-> 1]]]
        ELSE IF ~RangeAsserts(d, n)
        THEN [status |-> "AssertionError", matrix |-> NoMatrix]
        ELSE [status |-> "ok", matrix |-> d]

\* Lines 510-518 on the score matrix with its diagonal flattened: the value
\* returned, or the exception. maxi = mini makes every cell nan, which
\* fails the first assert.
Normalise(flat, n) ==
    LET mini == MatMin(flat)
        maxi == MatMax(flat)
        d    == [c \in DOMAIN flat |-> Distance(flat[c], mini, maxi)]
    IN  IF maxi = mini THEN [status |-> "AssertionError", matrix |-> NoMatrix]
        ELSE IF ~RangeAsserts(d, n)
        THEN [status |-> "AssertionError", matrix |-> NoMatrix]
        ELSE [status |-> "ok", matrix |-> d]

DmPending == [status |-> "pending", matrix |-> NoMatrix]

----------------------------------------------------------------------------
(* PBlib._matrix_to_str and PBlib.hclust *)

\* numpy.set_printoptions(precision=3)
Precision == 3

\* 10^Precision: the unit of the printed matrix is 1/Thousandth
Thousandth == 10 ^ Precision

\* denominator of the distances handed to hclust: one digit beyond the
\* printed precision
FineDen == 10 * Thousandth

\* off-diagonal distances handed to hclust, as numerators over FineDen:
\* 0.1, 0.3331, 0.3334 and 1
FineNums == {1000, 3331, 3334, 10000}

\* the distance matrices handed to hclust for n items: symmetric, zero
\* diagonal, every cell over the same denominator
DistanceMatrices(n) ==
    {[c \in Cells(n) |->
        [num |-> IF c[1] = c[2] THEN 0
                 ELSE IF c[1] < c[2] THEN u[c] ELSE u[<<c[2], c[1]>>],
         den |-> FineDen]] :
     u \in [{c \in Cells(n) : c[1] < c[2]} -> FineNums]}

\* the print options of numpy when nothing has set them
NumpyDefaults == [threshold |-> "1000", precision |-> 8, linewidth |-> 75]

\* numpy.set_printoptions(threshold=numpy.inf, precision=3, linewidth=100000)
\* of _matrix_to_str; the options are not set back afterwards
MatrixPrintOptions(opts) ==
    [opts EXCEPT !.threshold = "inf", !.precision = Precision, !.linewidth = 100000]

\* One cell as numpy prints it with precision=3 in fixed notation, read
\* back as a number of thousandths: num/den rounded to the nearest
\* thousandth. (Fixed notation is what numpy uses for the matrices of the
\* model: non-zero cells between 1e-4 and 1, largest/smallest <= 1000; no
\* cell of the model lies halfway between two thousandths.)
RoundCell(d) == (2 * Thousandth * d.num + d.den) \div (2 * d.den)

\* _matrix_to_str: the text R reads, one number per cell
MatrixToStr(dm) == [c \in DOMAIN dm |-> RoundCell(dm[c])]

\* number of rows of a matrix given by its cells
Dim(m) == Cardinality({c \in DOMAIN m : c[2] = 0})

\* cutree(hclust(as.dist(distances), method), k) for 1 <= k <= n: some
\* partition of the n items into exactly k clusters, numbered in the order
\* in which their first item appears. The merge order R computes is not
\* modelled: every such partition is a possible answer. Item q of R is
\* sequence q - 1 of Python.
CutreePartitions(n, k) ==
    {cl \in [1..n -> 1..k] :
        /\ \A i \in 1..k : \E q \in 1..n : cl[q] = i
        /\ \A q \in 1..n : \A i \in 1..(cl[q] - 1) : \E r \in 1..(q - 1) : cl[r] = i}

\* rowSums(distmat[ind, ind]) for row q, in thousandths
RowSum(distmat, members, q) ==
    LET RECURSIVE Sum(_)
        Sum(S) == IF S = {} THEN 0
                  ELSE LET r == CHOOSE r \in S : TRUE
                       IN  distmat[<<q - 1, r - 1>>] + Sum(S \ {r})
    IN  Sum(members)

\* clust.medoid with which.min(rowSums(distmat[, ind])): the smallest sum
\* is sought among the rows of every item, not of the cluster alone
ClustMedoid_AnyRow(i, distmat, clusters) ==
    LET ind == {q \in DOMAIN clusters : clusters[q] = i}
    IN  IF Cardinality(ind) = 1
        THEN CHOOSE q \in ind : TRUE
        ELSE CHOOSE q \in DOMAIN clusters :
                /\ \A r \in DOMAIN clusters : RowSum(distmat, ind, q) <= RowSum(distmat, ind, r)
                /\ \A r \in DOMAIN clusters :
                      RowSum(distmat, ind, r) = RowSum(distmat, ind, q) => q <= r

\* clust.medoid(i, distmat, clusters): the item number q of the name Vq.
\* which.min gives the first row with the smallest sum.
ClustMedoid(i, distmat, clusters) ==
    LET ind == {q \in DOMAIN clusters : clusters[q] = i}
    IN  IF Cardinality(ind) = 1
        THEN CHOOSE q \in ind : TRUE
        ELSE CHOOSE q \in ind :
                /\ \A r \in ind : RowSum(distmat, ind, q) <= RowSum(distmat, ind, r)
                /\ \A r \in ind : RowSum(distmat, ind, r) = RowSum(distmat, ind, q) => q <= r

\* unique(clusters): the cluster numbers in order of first appearance
RECURSIVE Unique(_)
Unique(clusters) ==
    IF clusters = <<>> THEN <<>>
    ELSE LET front == Unique(SubSeq(clusters, 1, Len(clusters) - 1))
             last  == clusters[Len(clusters)]
         IN  IF \E p \in 1..Len(front) : front[p] = last THEN front
             ELSE Append(front, last)

\* the name Vq of item q
VName(q) == [v |-> q]

\* the two lines the script prints for the partition cl
ScriptOutput(distmat, cl) ==
    LET u == Unique(cl)
        medoids == [p \in 1..Len(u) |-> VName(ClustMedoid(u[p], distmat, cl))]
    IN  << <<"cluster_id">> \o cl, <<"medoid_id">> \o medoids >>

\* nothing printed: "".split("\n") is one empty line
NoOutput == << <<>> >>

\* hclust needs two items and cutree 1 <= k <= n; otherwise R stops with an
\* error message before it prints anything
CutreeAccepts(n, k) == n >= 2 /\ 1 <= k /\ k <= n

\* What the R script gives for the matrix text and k when R itself works
RScript(distmat, k) ==
    LET n == Dim(distmat)
    IN  IF CutreeAccepts(n, k)
        THEN {[out |-> ScriptOutput(distmat, cl), err |-> "", code |-> 0] :
                cl \in CutreePartitions(n, k)}
        ELSE {[out |-> NoOutput, err |-> "Error", code |-> 1]}

\* What proc.communicate and proc.wait can give: the script's result, the
\* same with a message of R on stderr, or a process that died silently
ProcessOutcomes(distmat, k) ==
    RScript(distmat, k)
    \cup {[o EXCEPT !.err = "message"] : o \in RScript(distmat, k)}
    \cup {[out |-> NoOutput, err |-> "", code |-> 1]}

\* cluster_id.split()[1:] with one token too many dropped
ClusterTokens_DropTwo(line) == Tail(Tail(line))

\* cluster_id.split()[1:]
ClusterTokens(line) == Tail(line)

\* the medoid names read without the shift to indices that start at 0
MedoidIndices_NoShift(line) == [p \in 1..(Len(line) - 1) |-> line[p + 1].v]

\* [int(x[1:]) - 1 for x in medoid_id.split()[1:]]
MedoidIndices(line) == [p \in 1..(Len(line) - 1) |-> line[p + 1].v - 1]

HcFailed == [status |-> "RError", cluster_id |-> <<>>, medoid_id |-> <<>>]

\* Lines 601-622: the checks on err, code and the number of lines, then
\* the two lists
ReadOutput(p) ==
    IF p.err # "" THEN HcFailed
    ELSE IF p.code # 0 THEN HcFailed
    ELSE IF Len(p.out) # 2 THEN HcFailed
    ELSE [status |-> "ok",
          cluster_id |-> ClusterTokens(p.out[1]),
          medoid_id |-> MedoidIndices(p.out[2])]

NoProc == [out |-> NoOutput, err |-> "", code |-> 0]

\* the caller passes no method
NotGiven == "not given"

\* what a caller of hclust passes as method
MethodArgs == {NotGiven, "average"}

\* the parameter method of hclust: method='ward' unless the caller passes one
method(arg) == IF arg = NotGiven THEN "ward" ELSE arg

\* the linkage hclust of R uses for a script: the method written in the
\* call, "complete" (the default of R) when the call names none
Linkage(m) == IF m = NotGiven THEN "complete" ELSE m

HcPending == [status |-> "pending", cluster_id |-> <<>>, medoid_id |-> <<>>]


InitDist ==
    \* matrix_to_single_digit is not called
    /\ sd_matrix = <<>>
    /\ sd_result = [status |-> "idle", matrix |-> <<>>]
    \* compute_score of PBclust.py is not called on its own
    /\ cs_seq1 = <<>>
    /\ cs_seq2 = <<>>
    /\ cs_result = [status |-> "idle", total |-> 0]
    /\ sequences \in SequenceLists
    /\ substitution_mat \in SymMats
    /\ dm_i = 0
    /\ dm_j = 0
    /\ distance_mat = <<>>
    /\ dm_pc = IF Len(sequences) = 0 THEN "filled" ELSE "loop"
    /\ dm_result = DmPending
    /\ dm_scored = 0
    \* compute_score_by_position is not called on its own
    /\ score_mat = <<>>
    /\ seq1 = <<>>
    /\ seq2 = <<>>
    /\ score_result = [status |-> "idle", score |-> <<>>, block |-> <<>>, pos |-> 0]
    \* hclust is not called
    /\ hc_distance_mat = <<>>
    /\ nclusters = 0
    /\ hc_pc = "idle"
    /\ R_matrix = <<>>
    /\ proc = NoProc
    /\ hc_result = HcPending
    /\ backend_calls = 0
    /\ method_arg = ""
    /\ R_method = ""
    /\ np_printoptions = NumpyDefaults
    \* the PBclust.py program is not run
    /\ argv = <<>>
    /\ options = <<>>
    /\ matrix_file = <<>>
    /\ pg_pc = "idle"
    /\ pg_error = ""
    /\ pb_seq = <<>>
    /\ substitution_matrix = <<>>
    /\ pg_distance_mat = <<>>
    /\ dist_written = FALSE
    /\ pg_proc = NoProc
    /\ pg_backend_calls = 0
    /\ clust_file = <<>>
    /\ pg_files_read = 0
    /\ R_script = <<>>
    \* load_substitution_matrix is not called
    /\ lm_file = <<>>
    /\ lm_mat = <<>>
    /\ lm_i = 0
    /\ lm_pc = "idle"
    /\ lm_result = [status |-> "pending", mat |-> <<>>, idx |-> <<>>]

\* One pass of the inner loop body (lines 501-504): score the pair (i, j)
\* and store it twice, or leave distance_matrix with the exception.
ScorePair ==
    /\ dm_pc = "loop"
    /\ LET n == Len(sequences)
           r == substitution_score(substitution_mat,
                                   sequences[dm_i + 1], sequences[dm_j + 1])
           nxt == NextPair(dm_i, dm_j, n)
       IN  IF r.status = "ok"
           THEN /\ distance_mat' = StoreScore(distance_mat, dm_i, dm_j, r.total)
                /\ dm_scored' = dm_scored + 1
                /\ dm_i' = nxt[1]
                /\ dm_j' = nxt[2]
                /\ dm_pc' = IF nxt[1] >= n THEN "filled" ELSE "loop"
                /\ UNCHANGED dm_result
           ELSE /\ dm_pc' = "failed"
                /\ dm_result' = [status |-> r.status, matrix |-> NoMatrix]
                /\ UNCHANGED <<distance_mat, dm_scored, dm_i, dm_j>>
    /\ UNCHANGED <<sequences, substitution_mat>>
    /\ UNCHANGED <<scoreVars, clustVars, progVars, loadVars, computeVars, digitVars>>

\* Lines 506-508: the diagonal set to its largest value, in place. An
\* empty list makes numpy.max fail on the empty diagonal.
FlattenDiagonal ==
    /\ dm_pc = "filled"
    /\ IF Len(sequences) = 0
       THEN /\ dm_pc' = "failed"
            /\ dm_result' = [status |-> "ValueError", matrix |-> NoMatrix]
            /\ UNCHANGED distance_mat
       ELSE /\ distance_mat' = FillDiagonal(distance_mat,
                                            DiagonalFill(distance_mat, Len(sequences)))
            /\ dm_pc' = "flat"
            /\ UNCHANGED dm_result
    /\ UNCHANGED <<sequences, substitution_mat, dm_i, dm_j, dm_scored>>
    /\ UNCHANGED <<scoreVars, clustVars, progVars, loadVars, computeVars, digitVars>>

\* Lines 510-518: normalise, assert, return.
NormaliseAndReturn ==
    /\ dm_pc = "flat"
    /\ LET r == Normalise(distance_mat, Len(sequences))
       IN  /\ dm_result' = r
           /\ dm_pc' = IF r.status = "ok" THEN "done" ELSE "failed"
    /\ UNCHANGED <<sequences, substitution_mat, dm_i, dm_j, distance_mat, dm_scored>>
    /\ UNCHANGED <<scoreVars, clustVars, progVars, loadVars, computeVars, digitVars>>

NextDist == ScorePair \/ FlattenDiagonal \/ NormaliseAndReturn

SpecDist == InitDist /\ [][NextDist]_vars

----------------------------------------------------------------------------
(* SpecScore *)

InitScore ==
    \* matrix_to_single_digit is not called
    /\ sd_matrix = <<>>
    /\ sd_result = [status |-> "idle", matrix |-> <<>>]
    \* compute_score of PBclust.py is not called on its own
    /\ cs_seq1 = <<>>
    /\ cs_seq2 = <<>>
    /\ cs_result = [status |-> "idle", total |-> 0]
    /\ score_mat \in AllMats
    /\ seq1 \in SeqsUpTo(ScoreSymbols, MaxScoreLen)
    /\ seq2 \in SeqsUpTo(ScoreSymbols, MaxScoreLen)
    /\ score_result = Pending
    \* distance_matrix is not called
    /\ sequences = <<>>
    /\ substitution_mat = <<>>
    /\ dm_i = 0
    /\ dm_j = 0
    /\ distance_mat = <<>>
    /\ dm_pc = "idle"
    /\ dm_result = DmPending
    /\ dm_scored = 0
    \* hclust is not called
    /\ hc_distance_mat = <<>>
    /\ nclusters = 0
    /\ hc_pc = "idle"
    /\ R_matrix = <<>>
    /\ proc = NoProc
    /\ hc_result = HcPending
    /\ backend_calls = 0
    /\ method_arg = ""
    /\ R_method = ""
    /\ np_printoptions = NumpyDefaults
    \* the PBclust.py program is not run
    /\ argv = <<>>
    /\ options = <<>>
    /\ matrix_file = <<>>
    /\ pg_pc = "idle"
    /\ pg_error = ""
    /\ pb_seq = <<>>
    /\ substitution_matrix = <<>>
    /\ pg_distance_mat = <<>>
    /\ dist_written = FALSE
    /\ pg_proc = NoProc
    /\ pg_backend_calls = 0
    /\ clust_file = <<>>
    /\ pg_files_read = 0
    /\ R_script = <<>>
    \* load_substitution_matrix is not called
    /\ lm_file = <<>>
    /\ lm_mat = <<>>
    /\ lm_i = 0
    /\ lm_pc = "idle"
    /\ lm_result = [status |-> "pending", mat |-> <<>>, idx |-> <<>>]

CallComputeScoreByPosition ==
    /\ score_result.status = "pending"
    /\ score_result' = compute_score_by_position(score_mat, seq1, seq2)
    /\ UNCHANGED <<score_mat, seq1, seq2>>
    /\ UNCHANGED <<distVars, clustVars, progVars, loadVars, computeVars, digitVars>>

NextScore == CallComputeScoreByPosition

SpecScore == InitScore /\ [][NextScore]_vars

----------------------------------------------------------------------------
(* SpecClust *)

InitClust ==
    \* matrix_to_single_digit is not called
    /\ sd_matrix = <<>>
    /\ sd_result = [status |-> "idle", matrix |-> <<>>]
    \* compute_score of PBclust.py is not called on its own
    /\ cs_seq1 = <<>>
    /\ cs_seq2 = <<>>
    /\ cs_result = [status |-> "idle", total |-> 0]
    /\ hc_distance_mat \in UNION {DistanceMatrices(n) : n \in 1..MaxItems}
    /\ nclusters \in (0 - 1)..(MaxItems + 1)
    /\ hc_pc = "start"
    /\ R_matrix = <<>>
    /\ proc = NoProc
    /\ hc_result = HcPending
    /\ backend_calls = 0
    /\ method_arg \in MethodArgs
    /\ R_method = ""
    /\ np_printoptions \in {NumpyDefaults, MatrixPrintOptions(NumpyDefaults)}
    \* compute_score_by_position and distance_matrix are not called
    /\ score_mat = <<>>
    /\ seq1 = <<>>
    /\ seq2 = <<>>
    /\ score_result = [status |-> "idle", score |-> <<>>, block |-> <<>>, pos |-> 0]
    /\ sequences = <<>>
    /\ substitution_mat = <<>>
    /\ dm_i = 0
    /\ dm_j = 0
    /\ distance_mat = <<>>
    /\ dm_pc = "idle"
    /\ dm_result = DmPending
    /\ dm_scored = 0
    \* the PBclust.py program is not run
    /\ argv = <<>>
    /\ options = <<>>
    /\ matrix_file = <<>>
    /\ pg_pc = "idle"
    /\ pg_error = ""
    /\ pb_seq = <<>>
    /\ substitution_matrix = <<>>
    /\ pg_distance_mat = <<>>
    /\ dist_written = FALSE
    /\ pg_proc = NoProc
    /\ pg_backend_calls = 0
    /\ clust_file = <<>>
    /\ pg_files_read = 0
    /\ R_script = <<>>
    \* load_substitution_matrix is not called
    /\ lm_file = <<>>
    /\ lm_mat = <<>>
    /\ lm_i = 0
    /\ lm_pc = "idle"
    /\ lm_result = [status |-> "pending", mat |-> <<>>, idx |-> <<>>]

\* Lines 564-592: the matrix as text, put in the script with k and method
BuildScript ==
    /\ hc_pc = "start"
    /\ R_matrix' = MatrixToStr(hc_distance_mat)
    /\ R_method' = method(method_arg)
    /\ np_printoptions' = MatrixPrintOptions(np_printoptions)
    /\ hc_pc' = "script"
    /\ UNCHANGED <<hc_distance_mat, nclusters, proc, hc_result, backend_calls, method_arg>>
    /\ UNCHANGED <<scoreVars, distVars, progVars, loadVars, computeVars, digitVars>>

\* hclust as the cluster-count check of the program would have it: a k
\* above the number of items refused before R is started
RunR_CountChecked ==
    /\ hc_pc = "script"
    /\ IF nclusters > Dim(R_matrix)
       THEN /\ hc_result' = HcFailed
            /\ hc_pc' = "failed"
            /\ UNCHANGED <<proc, backend_calls>>
       ELSE /\ proc' \in ProcessOutcomes(R_matrix, nclusters)
            /\ backend_calls' = backend_calls + 1
            /\ hc_pc' = "ran"
            /\ UNCHANGED hc_result
    /\ UNCHANGED <<hc_distance_mat, nclusters, R_matrix, method_arg, R_method,
                   np_printoptions>>
    /\ UNCHANGED <<scoreVars, distVars, progVars, loadVars, computeVars, digitVars>>

\* Lines 594-600: R is started on the script and runs to its end
RunR ==
    /\ hc_pc = "script"
    /\ proc' \in ProcessOutcomes(R_matrix, nclusters)
    /\ backend_calls' = backend_calls + 1
    /\ hc_pc' = "ran"
    /\ UNCHANGED <<hc_distance_mat, nclusters, R_matrix, hc_result, method_arg, R_method,
                   np_printoptions>>
    /\ UNCHANGED <<scoreVars, distVars, progVars, loadVars, computeVars, digitVars>>

\* Lines 601-622: RError, or the two lists returned
ReadAnswer ==
    /\ hc_pc = "ran"
    /\ hc_result' = ReadOutput(proc)
    /\ hc_pc' = IF ReadOutput(proc).status = "ok" THEN "done" ELSE "failed"
    /\ UNCHANGED <<hc_distance_mat, nclusters, R_matrix, proc, backend_calls, method_arg, R_method,
                   np_printoptions>>
    /\ UNCHANGED <<scoreVars, distVars, progVars, loadVars, computeVars, digitVars>>

NextClust == BuildScript \/ RunR \/ ReadAnswer

SpecClust == InitClust /\ [][NextClust]_vars

----------------------------------------------------------------------------
(* PBlib.hclust with any program answering to the command R (SpecBackend) *)

\* Answers that break the contract of the script, made from an answer o
\* that honours it: an id missing or in excess, an id outside 1..k, a
\* medoid missing or in excess, a line missing or in excess
Corrupted(o, k) ==
    {[o EXCEPT !.out[1] = SubSeq(@, 1, Len(@) - 1)],
     [o EXCEPT !.out[1] = Append(@, 1)],
     [o EXCEPT !.out[1][2] = k + 1],
     [o EXCEPT !.out[2] = SubSeq(@, 1, Len(@) - 1)],
     [o EXCEPT !.out[2] = Append(@, VName(1))],
     [o EXCEPT !.out = Append(@, <<"medoid_id">>)],
     [o EXCEPT !.out = <<@[1]>>]}

\* What proc.communicate and proc.wait can give when the command R is any
\* program: the outcomes of R, and the corrupted answers
BackendOutcomes(distmat, k) ==
    ProcessOutcomes(distmat, k)
    \cup UNION {Corrupted(o, k) : o \in {a \in RScript(distmat, k) : a.code = 0}}

\* Lines 594-600: the command is started on the script and runs to its end
RunBackend ==
    /\ hc_pc = "script"
    /\ proc' \in BackendOutcomes(R_matrix, nclusters)
    /\ backend_calls' = backend_calls + 1
    /\ hc_pc' = "ran"
    /\ UNCHANGED <<hc_distance_mat, nclusters, R_matrix, hc_result, method_arg, R_method,
                   np_printoptions>>
    /\ UNCHANGED <<scoreVars, distVars, progVars, loadVars, computeVars, digitVars>>

NextBackend == BuildScript \/ RunBackend \/ ReadAnswer

SpecBackend == InitClust /\ [][NextBackend]_vars

----------------------------------------------------------------------------
(* The PBclust.py program *)

\* an option that was not given (None)
None == [given |-> FALSE, val |-> 0]

Some(v) == [given |-> TRUE, val |-> v]

\* the truth value Python gives an int option: None and 0 are false
Truthy(o) == o.given /\ o.val # 0

\* options.clusters_nb = 5
DefaultClustersNb == 5

\* sequences of the input files: two sequences of the same length, each
\* with a dummy block
ProgPool == { <<"a", "z">>, <<"z", "b">> }

\* a file named by -f: not a file at all, or a FASTA file given by the
\* sequences of its records in order
InputFiles ==
    {[isfile |-> FALSE, sequences |-> <<>>]}
    \cup {[isfile |-> TRUE, sequences |-> q] : q \in SeqsUpTo(ProgPool, MaxFileSeqs)}

\* the header of record j of a file (the text after ">")
Header(j) == [h |-> j]

\* header = ""
NoHeader == [h |-> 0]

\* The lines of a FASTA file, stripped: for each record its header line,
\* then its sequence wrapped at one block a line
RECURSIVE FastaLines(_, _)
FastaLines(seqs, j) ==
    IF j > Len(seqs) THEN <<>>
    ELSE << [gt |-> TRUE, header |-> Header(j), data |-> <<>>] >>
         \o [p \in 1..Len(seqs[j]) |->
                [gt |-> FALSE, header |-> NoHeader, data |-> <<seqs[j][p]>>]]
         \o FastaLines(seqs, j + 1)

\* Lines 56-65 and 67-69 of PBclust.read_fasta: the loop over the lines
\* from line p on, then the last record. A header line first overwrites
\* header, then the pending sequence is appended under that new header and
\* both are emptied.
RECURSIVE ReadFastaLoop(_, _, _, _, _)
ReadFastaLoop(lines, p, header, sequence, lst) ==
    IF p > Len(lines)
    THEN IF header # NoHeader /\ sequence # <<>>
         THEN Append(lst, [label |-> header, sequence |-> sequence])
         ELSE lst
    ELSE LET line == lines[p]
             header1 == IF line.gt THEN line.header ELSE header
             sequence1 == IF ~line.gt /\ line.data # <<>>
                          THEN sequence \o line.data ELSE sequence
         IN  IF sequence1 # <<>> /\ line.gt
             THEN ReadFastaLoop(lines, p + 1, NoHeader, <<>>,
                        Append(lst, [label |-> header1, sequence |-> sequence1]))
             ELSE ReadFastaLoop(lines, p + 1, header1, sequence1, lst)

\* PBclust.read_fasta(name): the list of [header, sequence]
ProgReadFasta(file) == ReadFastaLoop(FastaLines(file.sequences, 1), 1, NoHeader, <<>>, <<>>)

\* Lines 136-138: pb_seq += read_fasta(name) for every name of options.f
RECURSIVE ReadAll(_)
ReadAll(files) ==
    IF files = <<>> THEN <<>> ELSE ProgReadFasta(Head(files)) \o ReadAll(Tail(files))

\* tables a 16 x 16 matrix file can hold
ProgTables ==
    {SubstMatrix(aa, ab, ba, 2) : aa \in {0 - 1, 2}, ab \in {0 - 1, 0}, ba \in {0 - 1, 0}}

\* the matrix file: unreadable, one row or one column short, or 16 x 16
MatrixFiles ==
    {[kind |-> k, rows |-> 0, cols |-> 0, table |-> <<>>] : k \in {"unreadable"}}
    \cup {[kind |-> "table", rows |-> 15, cols |-> 16, table |-> <<>>],
          [kind |-> "table", rows |-> 16, cols |-> 15, table |-> <<>>]}
    \cup {[kind |-> "table", rows |-> 16, cols |-> 16, table |-> t] : t \in ProgTables}

\* Lines 108-120: the error parser.error is called with, "" when none
OptionsError(opts) ==
    IF opts.f = <<>> THEN "option -f is mandatory"
    ELSE IF ~opts.o THEN "option -o is mandatory"
    ELSE IF Truthy(opts.residue_shift) /\ opts.residue_shift.val < 0
    THEN "residue shift must be positive"
    ELSE IF Truthy(opts.clusters_nb) /\ opts.clusters_nb.val <= 0
    THEN "number of clusters must be strictly positive"
    ELSE ""

\* Lines 122-124: the default number of clusters
WithDefaultClusters(opts) ==
    IF ~Truthy(opts.clusters_nb)
    THEN [opts EXCEPT !.clusters_nb = Some(DefaultClustersNb)]
    ELSE opts

\* PB_DIC
PB_DIC == [pb \in {NAMES[k] : k \in 1..Len(NAMES)} |-> NamesIndex(pb)]

\* seq.lower().replace("z", "")
LowerNoZ(seq) ==
    LET low == [p \in 1..Len(seq) |-> Lower(seq[p])]
    IN  SelectSeq(low, LAMBDA pb : pb # "z")

\* the loop of compute_score over zip(seq1, seq2), from pair p on
RECURSIVE ProgScoreLoop(_, _, _, _, _)
ProgScoreLoop(mat, s, t, p, score) ==
    IF p > ZipLen(s, t) THEN [status |-> "ok", total |-> score]
    ELSE IF s[p] \notin DOMAIN PB_DIC \/ t[p] \notin DOMAIN PB_DIC
    THEN [status |-> "KeyError", total |-> 0]
    ELSE ProgScoreLoop(mat, s, t, p + 1, score + mat[PB_DIC[s[p]]][PB_DIC[t[p]]])

\* PBclust.compute_score, with substitution_matrix as a parameter
compute_score(mat, s1, s2) ==
    IF Len(s1) # Len(s2) THEN [status |-> "AssertionError", total |-> 0]
    ELSE ProgScoreLoop(mat, LowerNoZ(s1), LowerNoZ(s2), 1, 0)

\* x is scored before y in the upper triangle taken row by row
Before(x, y) == x[1] < y[1] \/ (x[1] = y[1] /\ x[2] < y[2])

\* 1 - (x - mini)/(maxi + mini) as the exact fraction num/den
ProgDistance(x, mini, maxi) ==
    [num |-> (maxi + mini) - (x - mini), den |-> maxi + mini]

\* Lines 164-183: the score of every pair, the diagonal set to its
\* minimum, the conversion to distances; or the exception that ends the
\* program (the first pair that raises; numpy.min of no diagonal)
ComputeDistanceMatrix(seqs, mat) ==
    LET n == Len(seqs)
        upper == {c \in Cells(n) : c[1] <= c[2]}
        sc(c) == compute_score(mat, seqs[c[1] + 1].sequence, seqs[c[2] + 1].sequence)
        bad == {c \in upper : sc(c).status # "ok"}
    IN  IF bad # {}
        THEN LET first == CHOOSE c \in bad : \A e \in bad : e = c \/ Before(c, e)
             IN  [status |-> sc(first).status, matrix |-> NoMatrix]
        ELSE IF n = 0 THEN [status |-> "ValueError", matrix |-> NoMatrix]
        ELSE LET raw == [c \in Cells(n) |->
                            IF c[1] <= c[2] THEN sc(c).total ELSE sc(<<c[2], c[1]>>).total]
                 diag_mini == SetMin({raw[<<i, i>>] : i \in 0..(n - 1)})
                 flat == FillDiagonal(raw, diag_mini)
                 mini == MatMin(flat)
                 maxi == MatMax(flat)
             IN  [status |-> "ok",
                  matrix |-> [c \in Cells(n) |-> ProgDistance(flat[c], mini, maxi)]]

\* the label "L" + str(i)
Label(i) == [l |-> i]

\* rowSums(distmat[ind, ind]) of item q, as a numerator over the common
\* denominator of the cells, with the sign of that denominator
ProgRowSum(distmat, members, q) ==
    LET RECURSIVE Sum(_)
        Sum(S) == IF S = {} THEN 0
                  ELSE LET r == CHOOSE r \in S : TRUE
                       IN  distmat[<<q - 1, r - 1>>].num + Sum(S \ {r})
        den == distmat[<<0, 0>>].den
    IN  IF den > 0 THEN Sum(members) ELSE 0 - Sum(members)

\* clust.medoid of the program's script: the item number of the medoid
ProgClustMedoid(i, distmat, clusters) ==
    LET ind == {q \in DOMAIN clusters : clusters[q] = i}
    IN  IF Cardinality(ind) = 1
        THEN CHOOSE q \in ind : TRUE
        ELSE CHOOSE q \in ind :
                /\ \A r \in ind : ProgRowSum(distmat, ind, q) <= ProgRowSum(distmat, ind, r)
                /\ \A r \in ind : ProgRowSum(distmat, ind, r) = ProgRowSum(distmat, ind, q) => q <= r

\* the three lines the program's script prints for the partition cl
ProgScriptOutput(distmat, cl) ==
    LET u == Unique(cl)
        n == Len(cl)
        medoids == [p \in 1..Len(u) |-> Label(ProgClustMedoid(u[p], distmat, cl) - 1)]
    IN  << <<"seq_id">> \o [q \in 1..n |-> Label(q - 1)],
           <<"cluster_id">> \o cl,
           <<"medoid_id">> \o medoids >>

\* What the program's R script gives when R itself works: an error when
\* cutree refuses k or the distances are not numbers (division by 0)
ProgRScript(distmat, k) ==
    LET n == Dim(distmat)
    IN  IF CutreeAccepts(n, k) /\ distmat[<<0, 0>>].den # 0
        THEN {[out |-> ProgScriptOutput(distmat, cl), err |-> "", code |-> 0] :
                cl \in CutreePartitions(n, k)}
        ELSE {[out |-> NoOutput, err |-> "Error", code |-> 1]}

ProgProcessOutcomes(distmat, k) ==
    ProgRScript(distmat, k)
    \cup {[o EXCEPT !.err = "message"] : o \in ProgRScript(distmat, k)}
    \cup {[out |-> NoOutput, err |-> "", code |-> 1]}

\* the lines of the .PB.clust file with the medoids numbered by idx
ReportLines_MedoidsFromZero(out) ==
    LET seq_id == Tail(out[1])
        cluster_id == Tail(out[2])
        medoid_id == Tail(out[3])
    IN  [p \in 1..Min2(Len(seq_id), Len(cluster_id)) |->
            [tag |-> "SEQ_CLU", first |-> seq_id[p], second |-> cluster_id[p]]]
        \o [p \in 1..Len(medoid_id) |->
            [tag |-> "CLU_MED", first |-> p - 1, second |-> medoid_id[p]]]

\* Lines 256-268: the lines of the .PB.clust file
ReportLines(out) ==
    LET seq_id == Tail(out[1])
        cluster_id == Tail(out[2])
        medoid_id == Tail(out[3])
    IN  [p \in 1..Min2(Len(seq_id), Len(cluster_id)) |->
            [tag |-> "SEQ_CLU", first |-> seq_id[p], second |-> cluster_id[p]]]
        \o [p \in 1..Len(medoid_id) |->
            [tag |-> "CLU_MED", first |-> p, second |-> medoid_id[p]]]

----------------------------------------------------------------------------
(* SpecProg *)

OptionValues == {None} \cup {Some(v) : v \in (0 - 1)..3}

\* the lists of at most m files given with -f, holding at most budget
\* records together
RECURSIVE FileListsWithin(_, _)
FileListsWithin(m, budget) ==
    IF m = 0 THEN {<<>>}
    ELSE {<<>>} \cup
         UNION {{<<f>> \o rest : rest \in FileListsWithin(m - 1, budget - Len(f.sequences))} :
                f \in {g \in InputFiles : Len(g.sequences) <= budget}}

\* the lists of files given with -f
FileLists == FileListsWithin(MaxFiles, MaxProgSeqs)

\* the command lines: any list of files with any --clusters, and the same
\* without -o or with a residue shift
CommandLines ==
    [f : FileLists, o : {TRUE}, residue_shift : {None}, clusters_nb : OptionValues]
    \cup [f : FileLists, o : {FALSE}, residue_shift : {None}, clusters_nb : {None}]
    \cup [f : FileLists, o : {TRUE}, residue_shift : {Some(0 - 1), Some(1)},
          clusters_nb : {None}]

InitProg ==
    \* matrix_to_single_digit is not called
    /\ sd_matrix = <<>>
    /\ sd_result = [status |-> "idle", matrix |-> <<>>]
    \* compute_score of PBclust.py is not called on its own
    /\ cs_seq1 = <<>>
    /\ cs_seq2 = <<>>
    /\ cs_result = [status |-> "idle", total |-> 0]
    /\ argv \in CommandLines
    /\ options = argv
    /\ matrix_file \in MatrixFiles
    /\ pg_pc = "check_options"
    /\ pg_error = ""
    /\ pb_seq = <<>>
    /\ substitution_matrix = <<>>
    /\ pg_distance_mat = <<>>
    /\ dist_written = FALSE
    /\ pg_proc = NoProc
    /\ pg_backend_calls = 0
    /\ clust_file = <<>>
    /\ pg_files_read = 0
    /\ R_script = <<>>
    \* the library functions are not called
    /\ score_mat = <<>>
    /\ seq1 = <<>>
    /\ seq2 = <<>>
    /\ score_result = [status |-> "idle", score |-> <<>>, block |-> <<>>, pos |-> 0]
    /\ sequences = <<>>
    /\ substitution_mat = <<>>
    /\ dm_i = 0
    /\ dm_j = 0
    /\ distance_mat = <<>>
    /\ dm_pc = "idle"
    /\ dm_result = DmPending
    /\ dm_scored = 0
    /\ hc_distance_mat = <<>>
    /\ nclusters = 0
    /\ hc_pc = "idle"
    /\ R_matrix = <<>>
    /\ proc = NoProc
    /\ hc_result = HcPending
    /\ backend_calls = 0
    /\ method_arg = ""
    /\ R_method = ""
    /\ np_printoptions = NumpyDefaults
    \* load_substitution_matrix is not called
    /\ lm_file = <<>>
    /\ lm_mat = <<>>
    /\ lm_i = 0
    /\ lm_pc = "idle"
    /\ lm_result = [status |-> "pending", mat |-> <<>>, idx |-> <<>>]

\* Lines 108-124: the checks on the options, then the default k
CheckOptions ==
    /\ pg_pc = "check_options"
    /\ IF OptionsError(options) # ""
       THEN /\ pg_pc' = "exit"
            /\ pg_error' = OptionsError(options)
            /\ UNCHANGED options
       ELSE /\ pg_pc' = "check_files"
            /\ options' = WithDefaultClusters(options)
            /\ UNCHANGED pg_error
    /\ UNCHANGED <<argv, matrix_file, pb_seq, substitution_matrix, pg_distance_mat,
                   dist_written, pg_proc, pg_backend_calls, clust_file,
                   pg_files_read, R_script>>
    /\ UNCHANGED <<scoreVars, distVars, clustVars, loadVars, computeVars, digitVars>>

\* Lines 129-131: every name given with -f is a file
CheckInputFiles ==
    /\ pg_pc = "check_files"
    /\ IF \E k \in 1..Len(options.f) : ~options.f[k].isfile
       THEN /\ pg_pc' = "exit"
            /\ pg_error' = "does not appear to be a valid file"
       ELSE /\ pg_pc' = "read_files"
            /\ UNCHANGED pg_error
    /\ UNCHANGED <<argv, options, matrix_file, pb_seq, substitution_matrix,
                   pg_distance_mat, dist_written, pg_proc, pg_backend_calls, clust_file,
                   pg_files_read, R_script>>
    /\ UNCHANGED <<scoreVars, distVars, clustVars, loadVars, computeVars, digitVars>>

\* Lines 136-138: read every file
ReadPBsFiles ==
    /\ pg_pc = "read_files"
    /\ pb_seq' = ReadAll(options.f)
    /\ pg_files_read' = pg_files_read + Len(options.f)
    /\ pg_pc' = "label_sequences"
    /\ UNCHANGED <<argv, options, matrix_file, pg_error, substitution_matrix,
                   pg_distance_mat, dist_written, pg_proc, pg_backend_calls, clust_file,
                   R_script>>
    /\ UNCHANGED <<scoreVars, distVars, clustVars, loadVars, computeVars, digitVars>>

\* Lines 140-143: the first column of pb_seq, the headers, is overwritten
\* with the labels L0, L1, ...
LabelSequences ==
    /\ pg_pc = "label_sequences"
    /\ pb_seq' = [q \in 1..Len(pb_seq) |-> [pb_seq[q] EXCEPT !.label = Label(q - 1)]]
    /\ pg_pc' = "load_matrix"
    /\ UNCHANGED <<argv, options, matrix_file, pg_error, substitution_matrix,
                   pg_distance_mat, dist_written, pg_proc, pg_backend_calls, clust_file,
                   pg_files_read, R_script>>
    /\ UNCHANGED <<scoreVars, distVars, clustVars, loadVars, computeVars, digitVars>>

\* check_symetry printing the pair that differs without leaving the program
check_symetry_NoExit(mat) == TRUE

\* check_symetry: TRUE when no pair (i, j) has mat[i][j] # mat[j][i]
check_symetry(mat) == \A i \in 0..15 : \A j \in 0..15 : mat[i][j] = mat[j][i]

\* Lines 150-158: load the matrix, assert its size, check its symmetry
LoadSubstitutionMatrix ==
    /\ pg_pc = "load_matrix"
    /\ IF matrix_file.kind = "unreadable"
       THEN /\ pg_pc' = "exit"
            /\ pg_error' = "cannot read matrix"
            /\ UNCHANGED substitution_matrix
       ELSE IF matrix_file.rows # 16 \/ matrix_file.cols # 16
       THEN /\ pg_pc' = "exit"
            /\ pg_error' = "wrong substitution matrix size"
            /\ UNCHANGED substitution_matrix
       ELSE IF ~check_symetry(matrix_file.table)
       THEN /\ pg_pc' = "exit"
            /\ pg_error' = "matrix is not symetric"
            /\ substitution_matrix' = matrix_file.table
       ELSE /\ pg_pc' = "compute_distance"
            /\ substitution_matrix' = matrix_file.table
            /\ UNCHANGED pg_error
    /\ UNCHANGED <<argv, options, matrix_file, pb_seq, pg_distance_mat,
                   dist_written, pg_proc, pg_backend_calls, clust_file,
                   pg_files_read, R_script>>
    /\ UNCHANGED <<scoreVars, distVars, clustVars, loadVars, computeVars, digitVars>>

\* Lines 164-183: the distance matrix of the program
ComputeDistance ==
    /\ pg_pc = "compute_distance"
    /\ LET r == ComputeDistanceMatrix(pb_seq, substitution_matrix)
       IN  IF r.status = "ok"
           THEN /\ pg_distance_mat' = r.matrix
                /\ pg_pc' = "write_distance"
                /\ UNCHANGED pg_error
           ELSE /\ pg_pc' = "exit"
                /\ pg_error' = r.status
                /\ UNCHANGED pg_distance_mat
    /\ UNCHANGED <<argv, options, matrix_file, pb_seq, substitution_matrix,
                   dist_written, pg_proc, pg_backend_calls, clust_file,
                   pg_files_read, R_script>>
    /\ UNCHANGED <<scoreVars, distVars, clustVars, loadVars, computeVars, digitVars>>

\* Line 191: numpy.set_printoptions(threshold=numpy.inf); max_line_width
\* and precision of line 192 are arguments of array_str alone, and the
\* options are not set back afterwards
DistancePrintOptions(opts) == [opts EXCEPT !.threshold = "inf"]

\* Lines 185-200: the labelled matrix printed and written to .PB.dist; the
\* print options of the process keep the threshold set for the printing
WriteDistanceMatrix ==
    /\ pg_pc = "write_distance"
    /\ np_printoptions' = DistancePrintOptions(np_printoptions)
    /\ dist_written' = TRUE
    /\ pg_pc' = "run_R"
    /\ UNCHANGED <<argv, options, matrix_file, pg_error, pb_seq, substitution_matrix,
                   pg_distance_mat, pg_proc, pg_backend_calls, clust_file,
                   pg_files_read, R_script>>
    /\ UNCHANGED <<hc_distance_mat, nclusters, hc_pc, R_matrix, proc, hc_result,
                   backend_calls, method_arg, R_method>>
    /\ UNCHANGED <<scoreVars, distVars, loadVars, computeVars, digitVars>>

\* Lines 208-252: the script is built and R runs it; what R writes on
\* stderr and its exit code are printed, and the program goes on
ExecuteRScript ==
    /\ pg_pc = "run_R"
    /\ R_script' = [clusters |-> options.clusters_nb.val, method |-> NotGiven]
    /\ pg_proc' \in ProgProcessOutcomes(pg_distance_mat, options.clusters_nb.val)
    /\ pg_backend_calls' = pg_backend_calls + 1
    /\ pg_pc' = "report"
    /\ UNCHANGED <<argv, options, matrix_file, pg_error, pb_seq, substitution_matrix,
                   pg_distance_mat, dist_written, clust_file,
                   pg_files_read>>
    /\ UNCHANGED <<scoreVars, distVars, clustVars, loadVars, computeVars, digitVars>>

\* Lines 253-270: three lines of output are required, then .PB.clust is
\* written
WriteReport ==
    /\ pg_pc = "report"
    /\ IF Len(pg_proc.out) # 3
       THEN /\ pg_pc' = "exit"
            /\ pg_error' = "wrong R ouput"
            /\ UNCHANGED clust_file
       ELSE /\ pg_pc' = "end"
            /\ clust_file' = ReportLines(pg_proc.out)
            /\ UNCHANGED pg_error
    /\ UNCHANGED <<argv, options, matrix_file, pb_seq, substitution_matrix,
                   pg_distance_mat, dist_written, pg_proc, pg_backend_calls,
                   pg_files_read, R_script>>
    /\ UNCHANGED <<scoreVars, distVars, clustVars, loadVars, computeVars, digitVars>>

NextProg ==
    \/ CheckOptions
    \/ CheckInputFiles
    \/ ReadPBsFiles
    \/ LabelSequences
    \/ LoadSubstitutionMatrix
    \/ ComputeDistance
    \/ WriteDistanceMatrix
    \/ ExecuteRScript
    \/ WriteReport

SpecProg == InitProg /\ [][NextProg]_vars

----------------------------------------------------------------------------
(* PBlib.load_substitution_matrix (SpecLoad) *)

\* The float nan that numpy.loadtxt(dtype=float) makes of the field "nan",
\* held in the tables of the model as a number no score takes
NaN == 99

\* x != y on floats with nan taken as equal to itself
FloatNe_NanEqual(x, y) == x # y

\* x != y on floats: nan differs from every float, itself included
FloatNe(x, y) == x = NaN \/ y = NaN \/ x # y

\* a rows x cols table: symmetric where it is square, (0,0) is aa, (1,1) is
\* bb, the other diagonal cells repeat aa, every other cell is ab
Table(rows, cols, aa, ab, bb) ==
    [i \in 0..(rows - 1) |-> [j \in 0..(cols - 1) |->
        IF i = j THEN (IF i = 1 THEN bb ELSE aa) ELSE ab]]

\* the cells of which one may be overwritten in a table of the model
RewrittenCells == {<<0, 1>>, <<15, 1>>, <<14, 15>>, <<15, 15>>}

\* the numbers of rows and of columns of the tables of the model
TableSizes == (16 - MaxSizeGap)..(16 + MaxSizeGap)

\* What numpy.loadtxt makes of the file: an exception (no file, a row
\* shorter than the others, a field that is no number), the vector it
\* returns for a single row of 16 numbers (shape (16,), kept here as the
\* one row read), or a rows x cols array in which one cell may differ from
\* the symmetric table or be nan.
LoadedFiles ==
    {[kind |-> "unreadable", shape |-> <<>>, table |-> <<>>]}
    \cup {[kind |-> "array", shape |-> <<16>>,
           table |-> [i \in {0} |-> [j \in 0..15 |-> aa]]] : aa \in ScoreVals}
    \cup {[kind |-> "array", shape |-> <<r, c>>,
           table |-> IF cell[1] < r /\ cell[2] < c
                     THEN [Table(r, c, aa, ab, bb) EXCEPT ![cell[1]][cell[2]] = v]
                     ELSE Table(r, c, aa, ab, bb)] :
            r \in TableSizes, c \in TableSizes, aa \in {0, 2}, ab \in {0 - 1, 0},
            bb \in {2}, cell \in RewrittenCells, v \in ScoreVals \cup {NaN}}

\* the shape test with the assert compiled away
ShapeOk_NoAssert(shape) == TRUE

\* assert mat.shape == (16, 16)
ShapeOk(shape) == shape = <<16, 16>>

\* The inner loop of row i (lines 214-216): the first j at which the
\* comparison raises, by the test itself (ValueError) or by an index out of
\* the array (IndexError; a vector has no len(mat[0])); "ok" when no j does
RowCheck(mat, shape, i) ==
    IF Len(shape) # 2 THEN [status |-> "TypeError", idx |-> <<>>]
    ELSE LET rows == shape[1]
             cols == shape[2]
             raises(j) == j >= rows \/ i >= cols \/ FloatNe(mat[i][j], mat[j][i])
             bad == {j \in 0..(cols - 1) : raises(j)}
         IN  IF bad = {} THEN [status |-> "ok", idx |-> <<>>]
             ELSE LET j == SetMin(bad)
                  IN  IF j >= rows \/ i >= cols
                      THEN [status |-> "IndexError", idx |-> <<>>]
                      ELSE [status |-> "ValueError", idx |-> <<i, j>>]

LmPending == [status |-> "pending", mat |-> <<>>, idx |-> <<>>]

InitLoad ==
    \* matrix_to_single_digit is not called
    /\ sd_matrix = <<>>
    /\ sd_result = [status |-> "idle", matrix |-> <<>>]
    \* compute_score of PBclust.py is not called on its own
    /\ cs_seq1 = <<>>
    /\ cs_seq2 = <<>>
    /\ cs_result = [status |-> "idle", total |-> 0]
    /\ lm_file \in LoadedFiles
    /\ lm_mat = <<>>
    /\ lm_i = 0
    /\ lm_pc = "loadtxt"
    /\ lm_result = LmPending
    \* the scoring, distance and clustering functions are not called
    /\ score_mat = <<>>
    /\ seq1 = <<>>
    /\ seq2 = <<>>
    /\ score_result = [status |-> "idle", score |-> <<>>, block |-> <<>>, pos |-> 0]
    /\ sequences = <<>>
    /\ substitution_mat = <<>>
    /\ dm_i = 0
    /\ dm_j = 0
    /\ distance_mat = <<>>
    /\ dm_pc = "idle"
    /\ dm_result = DmPending
    /\ dm_scored = 0
    /\ hc_distance_mat = <<>>
    /\ nclusters = 0
    /\ hc_pc = "idle"
    /\ R_matrix = <<>>
    /\ proc = NoProc
    /\ hc_result = HcPending
    /\ backend_calls = 0
    /\ method_arg = ""
    /\ R_method = ""
    /\ np_printoptions = NumpyDefaults
    \* the PBclust.py program is not run
    /\ argv = <<>>
    /\ options = <<>>
    /\ matrix_file = <<>>
    /\ pg_pc = "idle"
    /\ pg_error = ""
    /\ pb_seq = <<>>
    /\ substitution_matrix = <<>>
    /\ pg_distance_mat = <<>>
    /\ dist_written = FALSE
    /\ pg_proc = NoProc
    /\ pg_backend_calls = 0
    /\ clust_file = <<>>
    /\ pg_files_read = 0
    /\ R_script = <<>>

\* Line 212: mat = numpy.loadtxt(name, dtype=float, skiprows=2)
LoadTxt ==
    /\ lm_pc = "loadtxt"
    /\ IF lm_file.kind = "unreadable"
       THEN /\ lm_pc' = "failed"
            /\ lm_result' = [status |-> "LoadtxtError", mat |-> <<>>, idx |-> <<>>]
            /\ UNCHANGED lm_mat
       ELSE /\ lm_pc' = "assert"
            /\ lm_mat' = lm_file.table
            /\ UNCHANGED lm_result
    /\ UNCHANGED <<lm_file, lm_i>>
    /\ UNCHANGED <<scoreVars, distVars, clustVars, progVars, computeVars, digitVars>>

\* Line 213: the assert on the shape
AssertShape ==
    /\ lm_pc = "assert"
    /\ IF ShapeOk(lm_file.shape)
       THEN /\ lm_pc' = "loop"
            /\ UNCHANGED lm_result
       ELSE /\ lm_pc' = "failed"
            /\ lm_result' = [status |-> "AssertionError", mat |-> <<>>, idx |-> <<>>]
    /\ UNCHANGED <<lm_file, lm_mat, lm_i>>
    /\ UNCHANGED <<scoreVars, distVars, clustVars, progVars, computeVars, digitVars>>

\* Lines 214-217: one row of the symmetry loop; ValueError at the first
\* pair that differs, the matrix returned after the last row
CheckRow ==
    /\ lm_pc = "loop"
    /\ LET r == RowCheck(lm_mat, lm_file.shape, lm_i)
       IN  IF r.status # "ok"
           THEN /\ lm_pc' = "failed"
                /\ lm_result' = [status |-> r.status, mat |-> <<>>, idx |-> r.idx]
                /\ UNCHANGED lm_i
           ELSE IF lm_i + 1 < lm_file.shape[1]
           THEN /\ lm_i' = lm_i + 1
                /\ UNCHANGED <<lm_pc, lm_result>>
           ELSE /\ lm_pc' = "done"
                /\ lm_result' = [status |-> "ok", mat |-> lm_mat, idx |-> <<>>]
                /\ UNCHANGED lm_i
    /\ UNCHANGED <<lm_file, lm_mat>>
    /\ UNCHANGED <<scoreVars, distVars, clustVars, progVars, computeVars, digitVars>>

NextLoad == LoadTxt \/ AssertShape \/ CheckRow

SpecLoad == InitLoad /\ [][NextLoad]_vars

----------------------------------------------------------------------------
(* PBclust.compute_score on one pair of sequences (SpecCompute) *)

InitCompute ==
    \* matrix_to_single_digit is not called
    /\ sd_matrix = <<>>
    /\ sd_result = [status |-> "idle", matrix |-> <<>>]
    /\ substitution_matrix \in SymMats
    /\ cs_seq1 \in SeqsUpTo(ScoreSymbols, MaxScoreLen)
    /\ cs_seq2 \in SeqsUpTo(ScoreSymbols, MaxScoreLen)
    /\ cs_result = [status |-> "pending", total |-> 0]
    \* the rest of the program is not run
    /\ argv = <<>>
    /\ options = <<>>
    /\ matrix_file = <<>>
    /\ pg_pc = "idle"
    /\ pg_error = ""
    /\ pb_seq = <<>>
    /\ pg_distance_mat = <<>>
    /\ dist_written = FALSE
    /\ pg_proc = NoProc
    /\ pg_backend_calls = 0
    /\ clust_file = <<>>
    /\ pg_files_read = 0
    /\ R_script = <<>>
    \* the library functions are not called
    /\ score_mat = <<>>
    /\ seq1 = <<>>
    /\ seq2 = <<>>
    /\ score_result = [status |-> "idle", score |-> <<>>, block |-> <<>>, pos |-> 0]
    /\ sequences = <<>>
    /\ substitution_mat = <<>>
    /\ dm_i = 0
    /\ dm_j = 0
    /\ distance_mat = <<>>
    /\ dm_pc = "idle"
    /\ dm_result = DmPending
    /\ dm_scored = 0
    /\ hc_distance_mat = <<>>
    /\ nclusters = 0
    /\ hc_pc = "idle"
    /\ R_matrix = <<>>
    /\ proc = NoProc
    /\ hc_result = HcPending
    /\ backend_calls = 0
    /\ method_arg = ""
    /\ R_method = ""
    /\ np_printoptions = NumpyDefaults
    /\ lm_file = <<>>
    /\ lm_mat = <<>>
    /\ lm_i = 0
    /\ lm_pc = "idle"
    /\ lm_result = LmPending

\* compute_score(seq1, seq2) with the matrix the program has loaded
CallComputeScore ==
    /\ cs_result.status = "pending"
    /\ cs_result' = compute_score(substitution_matrix, cs_seq1, cs_seq2)
    /\ UNCHANGED <<cs_seq1, cs_seq2>>
    /\ UNCHANGED <<scoreVars, distVars, clustVars, progVars, loadVars, digitVars>>

NextCompute == CallComputeScore

SpecCompute == InitCompute /\ [][NextCompute]_vars

----------------------------------------------------------------------------
(* PBlib.matrix_to_single_digit (SpecDigit) *)

\* similarity scores of the matrices handed to matrix_to_single_digit
DigitVals == {0 - 2, 0, 1, 3}

\* the square matrices handed to matrix_to_single_digit
DigitMatrices == UNION {[Cells(n) -> DigitVals] : n \in 1..MaxDigitDim}

\* What astype(int) makes of nan, the result of 0/0 for a matrix whose
\* values are all the same. The cast to the C long is undefined in C; by
\* build it gives the smallest integer of a long of 64 bits,
\* -9223372036854775808 (written in two words, hi * 2^32 + lo, as it does
\* not fit an integer of 32 bits), the smallest integer of a long of 32
\* bits, or 0.
NanAsInt ==
    [long64 |-> [hi |-> 0 - 2147483647 - 1, lo |-> 0],
     long32 |-> 0 - 2147483647 - 1,
     zero   |-> 0]

\* Lines 478-482 for one cell: 9 * (1 - (x - mini)/(maxi - mini)) cut to an
\* integer. The value is never negative, so the cut is the integer
\* division of 9 * (maxi - x) by maxi - mini.
SingleDigit(x, mini, maxi, nan) ==
    IF maxi = mini THEN nan ELSE (9 * (maxi - x)) \div (maxi - mini)

\* the diagonal left as the conversion made it
ZeroDiagonal_Skipped(mat_modified) == mat_modified

\* numpy.fill_diagonal(mat_modified, 0)
ZeroDiagonal(mat_modified) == FillDiagonal(mat_modified, 0)

\* matrix_to_single_digit(matrix); nan is what the platform casts nan to
matrix_to_single_digit(matrix, nan) ==
    LET mini == MatMin(matrix)
        maxi == MatMax(matrix)
    IN  ZeroDiagonal([c \in DOMAIN matrix |-> SingleDigit(matrix[c], mini, maxi, nan)])

InitDigit ==
    /\ sd_matrix \in DigitMatrices
    /\ sd_result = [status |-> "pending", matrix |-> <<>>]
    \* compute_score of PBclust.py is not called on its own
    /\ cs_seq1 = <<>>
    /\ cs_seq2 = <<>>
    /\ cs_result = [status |-> "idle", total |-> 0]
    \* the program is not run
    /\ argv = <<>>
    /\ options = <<>>
    /\ matrix_file = <<>>
    /\ pg_pc = "idle"
    /\ pg_error = ""
    /\ pb_seq = <<>>
    /\ substitution_matrix = <<>>
    /\ pg_distance_mat = <<>>
    /\ dist_written = FALSE
    /\ pg_proc = NoProc
    /\ pg_backend_calls = 0
    /\ clust_file = <<>>
    /\ pg_files_read = 0
    /\ R_script = <<>>
    \* the other library functions are not called
    /\ score_mat = <<>>
    /\ seq1 = <<>>
    /\ seq2 = <<>>
    /\ score_result = [status |-> "idle", score |-> <<>>, block |-> <<>>, pos |-> 0]
    /\ sequences = <<>>
    /\ substitution_mat = <<>>
    /\ dm_i = 0
    /\ dm_j = 0
    /\ distance_mat = <<>>
    /\ dm_pc = "idle"
    /\ dm_result = DmPending
    /\ dm_scored = 0
    /\ hc_distance_mat = <<>>
    /\ nclusters = 0
    /\ hc_pc = "idle"
    /\ R_matrix = <<>>
    /\ proc = NoProc
    /\ hc_result = HcPending
    /\ backend_calls = 0
    /\ method_arg = ""
    /\ R_method = ""
    /\ np_printoptions = NumpyDefaults
    /\ lm_file = <<>>
    /\ lm_mat = <<>>
    /\ lm_i = 0
    /\ lm_pc = "idle"
    /\ lm_result = LmPending

\* Lines 475-485: the whole function; the argument is not written to
CallMatrixToSingleDigit ==
    /\ sd_result.status = "pending"
    /\ \E build \in DOMAIN NanAsInt :
          sd_result' = [status |-> "ok",
                        matrix |-> matrix_to_single_digit(sd_matrix, NanAsInt[build])]
    /\ UNCHANGED sd_matrix
    /\ UNCHANGED <<scoreVars, distVars, clustVars, progVars, loadVars, computeVars>>

NextDigit == CallMatrixToSingleDigit

SpecDigit == InitDigit /\ [][NextDigit]_vars

----------------------------------------------------------------------------
(* Claims on compute_score_by_position (SpecScore) *)

IsWildcard(pb) == pb \in {"z", "Z"}

ScoreCalled == score_result.status # "pending"

\* positions whose two symbols are scored through the matrix or rejected:
\* neither symbol is the dummy block, and one of them is no PB
RejectedPositions ==
    {p \in 1..ZipLen(seq1, seq2) :
        /\ ~IsWildcard(seq1[p]) /\ ~IsWildcard(seq2[p])
        /\ (~InNames(seq1[p]) \/ ~InNames(seq2[p]))}

\* C3: at every position where seq1 or seq2 holds the dummy block (z or Z)
\* the score list returned holds exactly 0, whatever the other symbol and
\* the matrix are, and such a position never raises InvalidBlockError.
C3_WildcardScoresZero ==
    /\ score_result.status = "ok" =>
          /\ Len(score_result.score) = Len(seq1)
          /\ \A p \in 1..Len(seq1) :
                (IsWildcard(seq1[p]) \/ IsWildcard(seq2[p])) => score_result.score[p] = 0
    /\ score_result.status = "InvalidBlockError" =>
          ~(IsWildcard(seq1[score_result.pos]) \/ IsWildcard(seq2[score_result.pos]))

\* a returned score list with a Z paired with a PB whose matrix entries are
\* all non-zero, and a z paired with a symbol that is no PB
C3_Witness ==
    /\ score_result.status = "ok"
    /\ Len(seq1) = 2
    /\ seq1[1] = "Z" /\ seq2[1] = "b"
    /\ seq1[2] = "x" /\ seq2[2] = "z"
    /\ \A i \in 0..15 : \A j \in 0..15 : score_mat[i][j] # 0
    /\ score_result.score = <<0, 0>>

\* C8: a call with two sequences of different lengths ends with the
\* assertion error on the lengths and gives no score list, whatever the
\* sequences hold (dummy blocks and non-PB symbols included).
C8_LengthMismatchFails ==
    (ScoreCalled /\ Len(seq1) # Len(seq2)) =>
        /\ score_result.status = "AssertionError"
        /\ score_result.score = <<>>

\* a failed call on sequences of different lengths whose common prefix
\* holds a non-PB symbol and a dummy block
C8_Witness ==
    /\ score_result.status = "AssertionError"
    /\ Len(seq1) = 2 /\ Len(seq2) = 1
    /\ seq1[1] = "x" /\ seq1[2] = "z" /\ seq2[1] = "a"

\* C9 as claimed: for equal lengths, any position holding a symbol that is
\* neither the dummy block nor a PB makes the call fail with
\* InvalidBlockError, also when that symbol is paired with the dummy block.
C9_Original ==
    (ScoreCalled /\ Len(seq1) = Len(seq2)) =>
        ((\E p \in 1..Len(seq1) :
             \/ (~IsWildcard(seq1[p]) /\ ~InNames(seq1[p]))
             \/ (~IsWildcard(seq2[p]) /\ ~InNames(seq2[p])))
         => score_result.status = "InvalidBlockError")

\* C9 amended: for equal lengths the call fails with InvalidBlockError
\* exactly when some position holds a non-PB symbol and no dummy block; the
\* error names the non-PB symbols of the first such position, in the order
\* seq1, seq2. A non-PB symbol paired with the dummy block is not reported.
C9_InvalidSymbolReported ==
    (ScoreCalled /\ Len(seq1) = Len(seq2)) =>
        IF RejectedPositions = {}
        THEN score_result.status = "ok"
        ELSE LET p == SetMin(RejectedPositions)
             IN  /\ score_result.status = "InvalidBlockError"
                 /\ score_result.pos = p
                 /\ score_result.block =
                        SelectSeq(<<seq1[p], seq2[p]>>, LAMBDA pb : ~InNames(pb))

\* an error naming both symbols of the second position, after a first
\* position where a non-PB symbol met the dummy block unreported
C9_Witness ==
    /\ score_result.status = "InvalidBlockError"
    /\ seq1 = <<"x", "x">> /\ seq2 = <<"z", "x">>
    /\ score_result.pos = 2
    /\ score_result.block = <<"x", "x">>

\* every symbol of s is one of the 16 PBs
OnlyPBs(s) == \A p \in 1..Len(s) : InNames(s[p])

\* C17: for every matrix M and every sequence s of PBs only,
\* compute_score_by_position(M, s, s) returns len(s) scores, the p-th being
\* the diagonal entry of M for the symbol s[p].
C17_SelfScoreIsDiagonal ==
    (ScoreCalled /\ seq1 = seq2 /\ OnlyPBs(seq1)) =>
        /\ score_result.status = "ok"
        /\ Len(score_result.score) = Len(seq1)
        /\ \A p \in 1..Len(seq1) :
              \E k \in 1..16 :
                 /\ NAMES[k] = seq1[p]
                 /\ score_result.score[p] = score_mat[k - 1][k - 1]

\* the sequence ab scored against itself with a matrix whose entries for
\* (a, a), (b, b) and (a, b) are three different numbers
C17_Witness ==
    /\ score_result.status = "ok"
    /\ seq1 = <<"a", "b">> /\ seq2 = <<"a", "b">>
    /\ score_mat[0][0] # score_mat[1][1]
    /\ score_mat[0][1] \notin {score_mat[0][0], score_mat[1][1]}
    /\ score_result.score = <<score_mat[0][0], score_mat[1][1]>>

----------------------------------------------------------------------------
(* Claims on distance_matrix (SpecDist) *)

NSeq == Len(sequences)

\* every sequence has the length of the first one
EqualLengths == \A k \in 1..NSeq : Len(sequences[k]) = Len(sequences[1])

\* every symbol is a PB or the dummy block
ValidSymbols ==
    \A k \in 1..NSeq : \A p \in 1..Len(sequences[k]) :
        IsWildcard(sequences[k][p]) \/ InNames(sequences[k][p])

DmEnded == dm_pc \in {"done", "failed"}

\* the score matrix after the loop, diagonal flattened as the code does
\* (the same matrix once the code has flattened it)
Flattened == FillDiagonal(distance_mat, DiagonalFill(distance_mat, NSeq))

\* C1: when distance_matrix returns for n >= 2 sequences, the matrix has
\* n x n cells, D[i][j] = D[j][i], and 0 <= D[i][j] <= 1 for all i, j.
C1_SymmetricInUnitRange ==
    (dm_result.status = "ok" /\ NSeq >= 2) =>
        LET d == dm_result.matrix
        IN  /\ DOMAIN d = Cells(NSeq)
            /\ \A c \in Cells(NSeq) :
                  /\ d[<<c[2], c[1]>>] = d[c]
                  /\ d[c].den > 0
                  /\ 0 <= d[c].num /\ d[c].num <= d[c].den

\* a matrix returned for three sequences, with a negative raw score and a
\* distance strictly between 0 and 1
C1_Witness ==
    /\ dm_result.status = "ok"
    /\ NSeq = 3
    /\ \E c \in Cells(NSeq) : distance_mat[c] < 0
    /\ \E c \in Cells(NSeq) :
          0 < dm_result.matrix[c].num /\ dm_result.matrix[c].num < dm_result.matrix[c].den

\* C2 as claimed: for equal-length valid sequences whose scores are not
\* all equal (also after the diagonal is flattened), distance_matrix
\* returns, and the diagonal of the matrix is exactly 0, also when an
\* off-diagonal pair scores higher than every self-similarity.
C2_ZeroDiagonalReturned ==
    (/\ DmEnded /\ NSeq >= 1 /\ EqualLengths /\ ValidSymbols
     /\ DOMAIN distance_mat = Cells(NSeq)
     /\ MatMax(Flattened) # MatMin(Flattened))
    => /\ dm_result.status = "ok"
       /\ \A i \in 0..(NSeq - 1) : dm_result.matrix[<<i, i>>].num = 0

\* some sequence differs in length from the first, or holds a non-PB symbol
InputInvalid == ~(EqualLengths /\ ValidSymbols)

\* C10 as claimed: on such input the error comes before any pairwise score
\* has been computed, and no matrix is returned.
C10_Original ==
    (InputInvalid /\ dm_pc = "failed") =>
        (dm_scored = 0 /\ dm_result.matrix = NoMatrix)

\* pairs (i, j), i <= j, whose scoring raises
FailingPairs ==
    {c \in Cells(NSeq) :
        /\ c[1] <= c[2]
        /\ substitution_score(substitution_mat,
                              sequences[c[1] + 1], sequences[c[2] + 1]).status # "ok"}

FirstFailingPair == CHOOSE c \in FailingPairs : \A e \in FailingPairs : e = c \/ Before(c, e)

\* number of pairs of the upper triangle scored before pair c
PairRank(c) == Cardinality({e \in Cells(NSeq) : e[1] <= e[2] /\ Before(e, c)})

\* C10 amended: on such input distance_matrix never returns a matrix, full
\* or partial; it fails at the first pair of the upper triangle, taken row
\* by row, whose scoring raises, after every earlier pair has been scored.
C10_FailsAtFirstOffendingPair ==
    InputInvalid =>
        /\ FailingPairs # {}
        /\ dm_pc \in {"loop", "failed"}
        /\ dm_result.matrix = NoMatrix
        /\ dm_result.status # "ok"
        /\ dm_pc = "loop" => dm_scored <= PairRank(FirstFailingPair)
        /\ dm_pc = "failed" =>
              /\ <<dm_i, dm_j>> = FirstFailingPair
              /\ dm_scored = PairRank(FirstFailingPair)
              /\ dm_result.status \in {"AssertionError", "InvalidBlockError"}

\* a failure on a non-PB symbol in the second row, after two pairs scored
C10_Witness ==
    /\ dm_pc = "failed"
    /\ InputInvalid
    /\ dm_result.status = "InvalidBlockError"
    /\ dm_i = 1
    /\ dm_scored >= 2

\* the loop has scored every pair
AllScored == DOMAIN distance_mat = Cells(NSeq)

\* score(seq_i, seq_i) of every sequence i
SelfScores ==
    {substitution_score(substitution_mat, sequences[k], sequences[k]).total : k \in 1..NSeq}

\* C11: whenever every entry of the score matrix is the same once the
\* diagonal has been flattened (max_all = min_all), distance_matrix ends
\* with an error and returns no matrix; a single sequence is such an input,
\* so a call with n = 1 never returns a matrix.
C11_DegenerateMatrixFails ==
    /\ (DmEnded /\ NSeq >= 1 /\ AllScored /\ MatMax(Flattened) = MatMin(Flattened)) =>
          /\ dm_pc = "failed"
          /\ dm_result.status = "AssertionError"
          /\ dm_result.matrix = NoMatrix
    /\ (DmEnded /\ NSeq = 1) =>
          /\ dm_pc = "failed"
          /\ dm_result.matrix = NoMatrix

\* three sequences whose self-scores differ while every entry is the same
\* after the flattening, and the call has failed
C11_Witness ==
    /\ dm_pc = "failed"
    /\ NSeq = 3
    /\ AllScored
    /\ SetMin(SelfScores) # SetMax(SelfScores)
    /\ MatMax(Flattened) = MatMin(Flattened)
    /\ dm_result.status = "AssertionError"

\* the diagonal has been overwritten (lines 506-508 have run)
DiagonalFlattened ==
    \/ dm_pc = "flat"
    \/ (DmEnded /\ NSeq >= 1 /\ AllScored)

\* C14 as claimed: before normalising, every diagonal entry is overwritten
\* with the minimum of the self-similarity scores.
C14_Original ==
    DiagonalFlattened =>
        \A i \in 0..(NSeq - 1) : distance_mat[<<i, i>>] = SetMin(SelfScores)

\* C14 amended: before normalising, every diagonal entry of the raw score
\* matrix is overwritten with the maximum of the self-similarity scores
\* score(seq_i, seq_i); the other entries keep the score of their pair.
C14_DiagonalSetToMaximum ==
    DiagonalFlattened =>
        \A c \in Cells(NSeq) :
            distance_mat[c] =
                IF c[1] = c[2] THEN SetMax(SelfScores)
                ELSE substitution_score(substitution_mat,
                                        sequences[c[1] + 1], sequences[c[2] + 1]).total

\* three sequences with different self-similarity scores, the diagonal
\* flattened and the matrix not yet normalised
C14_Witness ==
    /\ dm_pc = "flat"
    /\ NSeq = 3
    /\ SetMin(SelfScores) < SetMax(SelfScores)
    /\ \A i \in 0..(NSeq - 1) : distance_mat[<<i, i>>] = SetMax(SelfScores)

\* substitution_score of the sequences of Python indices i and j
DirectScore(i, j) ==
    substitution_score(substitution_mat, sequences[i + 1], sequences[j + 1])

\* C30: for a symmetric matrix and two sequences of the same length,
\* substitution_score gives the same outcome in both orders (the same
\* score, or an error in both), so every cell distance_matrix has written
\* before it flattens the diagonal, the mirrored cell (j, i) included,
\* holds the score that scoring its own pair (row, column) gives.
C30_ScoreSymmetricInArguments ==
    /\ \A c \in {p \in Cells(NSeq) : p[1] < p[2]} :
          Len(sequences[c[1] + 1]) = Len(sequences[c[2] + 1]) =>
              DirectScore(c[1], c[2]) = DirectScore(c[2], c[1])
    /\ dm_pc \in {"loop", "filled"} =>
          \A c \in DOMAIN distance_mat :
              /\ DirectScore(c[1], c[2]).status = "ok"
              /\ distance_mat[c] = DirectScore(c[1], c[2]).total

\* a mirrored cell (j, i), i < j, written for two different sequences that
\* begin with different PBs scoring other than 0, and a pair of sequences
\* of the same length that fails in both orders
C30_Witness ==
    /\ dm_pc = "loop"
    /\ \E c \in DOMAIN distance_mat :
          /\ c[1] > c[2]
          /\ Len(sequences[c[1] + 1]) >= 1
          /\ sequences[c[1] + 1][1] # sequences[c[2] + 1][1]
          /\ InNames(sequences[c[1] + 1][1]) /\ InNames(sequences[c[2] + 1][1])
          /\ distance_mat[c] # 0
    /\ \E c \in Cells(NSeq) :
          /\ c[1] < c[2]
          /\ Len(sequences[c[1] + 1]) = Len(sequences[c[2] + 1])
          /\ DirectScore(c[1], c[2]).status = "InvalidBlockError"
          /\ DirectScore(c[2], c[1]).status = "InvalidBlockError"

----------------------------------------------------------------------------
(* Claims on hclust (SpecClust) *)

NItems == Dim(hc_distance_mat)

HcEnded == hc_pc \in {"done", "failed"}

\* Python indices of the sequences of cluster i in the lists returned
Members(i) ==
    {q - 1 : q \in {r \in 1..Len(hc_result.cluster_id) : hc_result.cluster_id[r] = i}}

\* sum of the distances of sequence m to the sequences of S in the matrix
\* handed to hclust, as a numerator over the common denominator
RECURSIVE DistanceSum(_, _)
DistanceSum(m, S) ==
    IF S = {} THEN 0
    ELSE LET x == CHOOSE x \in S : TRUE
         IN  hc_distance_mat[<<m, x>>].num + DistanceSum(m, S \ {x})

\* C4: in every clustering hclust returns, the medoid of each cluster is a
\* member of the cluster with the smallest sum of distances to the members
\* of the cluster, the lowest index among those with the smallest sum.
C4_MedoidMinimalRowSum ==
    hc_result.status = "ok" =>
        \A i \in 1..Len(hc_result.medoid_id) :
            LET m == hc_result.medoid_id[i]
            IN  /\ m \in Members(i)
                /\ \A x \in Members(i) :
                      /\ DistanceSum(m, Members(i)) <= DistanceSum(x, Members(i))
                      /\ DistanceSum(m, Members(i)) = DistanceSum(x, Members(i)) => m <= x

\* C5: whenever hclust returns for n sequences and k clusters, cluster_id
\* has n entries, each in 1..k, and every id of 1..k occurs.
C5_ClusterIdsPartition ==
    hc_result.status = "ok" =>
        /\ Len(hc_result.cluster_id) = NItems
        /\ \A q \in 1..Len(hc_result.cluster_id) : hc_result.cluster_id[q] \in 1..nclusters
        /\ \A i \in 1..nclusters : \E q \in 1..Len(hc_result.cluster_id) :
              hc_result.cluster_id[q] = i

\* a clustering of three sequences in two clusters, the second sequence
\* alone in its cluster
C5_Witness ==
    /\ hc_result.status = "ok"
    /\ NItems = 3
    /\ nclusters = 2
    /\ hc_result.cluster_id = <<1, 2, 1>>

\* C7 as claimed: a k above the number of sequences is refused before the
\* backend is invoked.
C7_Original ==
    nclusters > NItems => backend_calls = 0

\* C7 amended: with k above the number of sequences hclust starts R with
\* that k, R refuses it, and hclust ends with RError and no clustering.
C7_RejectedByBackend ==
    nclusters > NItems =>
        /\ hc_result.status # "ok"
        /\ hc_pc # "done"
        /\ hc_pc = "ran" => (proc.err # "" \/ proc.code # 0)
        /\ hc_pc = "failed" =>
              /\ backend_calls = 1
              /\ hc_result = HcFailed

\* hclust failed on k = n + 1 after R answered with an error message
C7_Witness ==
    /\ hc_pc = "failed"
    /\ NItems = 3
    /\ nclusters = 4
    /\ backend_calls = 1
    /\ proc.err = "Error"
    /\ hc_result.status = "RError"

\* the R process gave what the script gives, with no other trouble
ScriptAnswered == hc_pc \in {"ran", "done", "failed"} /\ proc \in RScript(R_matrix, nclusters)

\* the k = 1 answer: one cluster with every sequence and one medoid
OneCluster ==
    /\ hc_result.status = "ok"
    /\ hc_result.cluster_id = [q \in 1..NItems |-> 1]
    /\ Len(hc_result.medoid_id) = 1
    /\ hc_result.medoid_id[1] \in 0..(NItems - 1)

\* the k = n answer: n clusters of one sequence, each its own medoid
AllSingletons ==
    /\ hc_result.status = "ok"
    /\ Len(hc_result.cluster_id) = NItems
    /\ \A q, r \in 1..NItems :
          hc_result.cluster_id[q] = hc_result.cluster_id[r] => q = r
    /\ Len(hc_result.medoid_id) = NItems
    /\ \A q \in 1..NItems : hc_result.medoid_id[hc_result.cluster_id[q]] = q - 1

\* C18 as claimed: for every distance matrix of n >= 1 sequences, when R
\* runs the script without other trouble, k = 1 gives one cluster with all
\* the sequences and k = n gives n singletons, each its own medoid.
C18_Original ==
    (HcEnded /\ ScriptAnswered) =>
        /\ nclusters = 1 => OneCluster
        /\ nclusters = NItems => AllSingletons

\* C18 amended: the same for n >= 2, whenever hclust returns (it returns
\* when R runs the script without other trouble); for n = 1 hclust never
\* returns a clustering: R refuses to cluster a single sequence and hclust
\* ends with RError.
C18_TrivialCuts ==
    /\ (hc_result.status = "ok" /\ nclusters = 1) => (NItems >= 2 /\ OneCluster)
    /\ (hc_result.status = "ok" /\ nclusters = NItems) => (NItems >= 2 /\ AllSingletons)
    /\ (HcEnded /\ ScriptAnswered /\ NItems >= 2 /\ nclusters \in {1, NItems}) =>
          hc_result.status = "ok"
    /\ NItems = 1 =>
          /\ hc_result.status # "ok"
          /\ HcEnded => hc_result = HcFailed

\* three sequences cut in three clusters: ids 1, 2, 3 and medoids 0, 1, 2
C18_Witness ==
    /\ hc_pc = "done"
    /\ NItems = 3
    /\ nclusters = 3
    /\ hc_result.cluster_id = <<1, 2, 3>>
    /\ hc_result.medoid_id = <<0, 1, 2>>

\* C29: whenever hclust returns (cluster_id, medoid_id) for n sequences,
\* medoid_id has one entry for each distinct cluster id, every entry is an
\* index m with 0 <= m < n, and the i-th entry, i counted from 0, is a
\* sequence of cluster i + 1: cluster_id[medoid_id[i]] = i + 1.
C29_MedoidsIndexTheirClusters ==
    hc_result.status = "ok" =>
        LET cluster_id == hc_result.cluster_id
            medoid_id == hc_result.medoid_id
        IN  /\ Len(medoid_id) = Cardinality({cluster_id[q] : q \in 1..Len(cluster_id)})
            /\ \A i \in 0..(Len(medoid_id) - 1) :
                  /\ 0 <= medoid_id[i + 1]
                  /\ medoid_id[i + 1] < NItems
                  /\ cluster_id[medoid_id[i + 1] + 1] = i + 1

\* three sequences in two clusters, the first one alone: the medoid of
\* cluster 2 is one of the sequences 1 and 2, whatever the third distance
C29_Witness ==
    /\ hc_result.status = "ok"
    /\ NItems = 3
    /\ hc_result.cluster_id = <<1, 2, 2>>
    /\ hc_result.medoid_id[1] = 0
    /\ hc_result.medoid_id[2] \in {1, 2}
    /\ hc_distance_mat[<<0, 1>>].num < hc_distance_mat[<<1, 2>>].num
    /\ hc_distance_mat[<<0, 2>>].num < hc_distance_mat[<<1, 2>>].num

\* C25: the matrix text sent to the backend, parsed again, gives back
\* every distance of the matrix handed to hclust (the cells of the model
\* are multiples of 1/FineDen, far apart for any floating-point tolerance,
\* so equal within tolerance is equal) at the same row and column: the
\* backend clusters on the distances distance_matrix computed.
C25_MatrixTextRoundTrip ==
    R_matrix # <<>> =>
        /\ DOMAIN R_matrix = DOMAIN hc_distance_mat
        /\ \A c \in DOMAIN R_matrix :
              R_matrix[c] * hc_distance_mat[c].den = hc_distance_mat[c].num * Thousandth

\* C26: a clustering invocation leaves every piece of process-wide state
\* as it was: no step of hclust changes its distance matrix argument, the
\* number of clusters asked for, or a global setting such as the print
\* options of numpy.
C26_GlobalStateUnchanged ==
    [][/\ hc_distance_mat' = hc_distance_mat
       /\ nclusters' = nclusters
       /\ np_printoptions' = np_printoptions]_vars

----------------------------------------------------------------------------
(* Claims on hclust with any backend (SpecBackend) *)

\* the answer on stdout is not the two lines of a partition of the n items
\* into clusters numbered 1..k with one medoid for each cluster
Malformed(out, n, k) ==
    \/ Len(out) # 2
    \/ Len(out) = 2 /\
         LET ids == Tail(out[1])
             medoids == Tail(out[2])
         IN  \/ Len(ids) # n
             \/ \E q \in 1..Len(ids) : ids[q] \notin 1..k
             \/ Len(medoids) # Cardinality({ids[q] : q \in 1..Len(ids)})

\* C22: hclust fails with a backend error whenever the answer of the
\* backend is malformed or incomplete (a number of cluster ids other than
\* the number of sequences, an id outside [1, k], a number of medoids other
\* than the number of distinct cluster ids); it never returns such an
\* answer to its caller.
C22_MalformedAnswerRejected ==
    (HcEnded /\ backend_calls > 0 /\ Malformed(proc.out, NItems, nclusters))
        => hc_result.status = "RError"

----------------------------------------------------------------------------
(* Claims on the PBclust.py program (SpecProg) *)

\* the command line is complete and its residue shift is accepted
OtherOptionsAccepted ==
    /\ argv.f # <<>>
    /\ argv.o
    /\ ~(Truthy(argv.residue_shift) /\ argv.residue_shift.val < 0)

\* C6: with --clusters k, k <= 0 (0 included), the program stops in the
\* check of the options with the error on the number of clusters: k is
\* left as given, no distance matrix is built and R is not started.
C6_NonPositiveKRejected ==
    (OtherOptionsAccepted /\ argv.clusters_nb.given /\ argv.clusters_nb.val <= 0) =>
        /\ pg_pc \in {"check_options", "exit"}
        /\ pg_pc = "exit" => pg_error = "number of clusters must be strictly positive"
        /\ options.clusters_nb = argv.clusters_nb
        /\ pg_distance_mat = <<>>
        /\ pg_backend_calls = 0

\* the matrix file holds a table that is not 16 x 16 or not symmetric
MatrixMalformed ==
    /\ matrix_file.kind = "table"
    /\ \/ matrix_file.rows # 16
       \/ matrix_file.cols # 16
       \/ \E c \in Cells(16) :
             matrix_file.table[c[1]][c[2]] # matrix_file.table[c[2]][c[1]]

MatrixErrors == {"wrong substitution matrix size", "matrix is not symetric"}

\* C13 as claimed: when the program stops on a malformed matrix, no
\* sequence file has been read.
C13_Original ==
    (MatrixMalformed /\ pg_pc = "exit" /\ pg_error \in MatrixErrors) =>
        pg_files_read = 0

\* C13 amended: the matrix is loaded and checked after every sequence file
\* has been read; a malformed matrix stops the program there, with the
\* error on the size or on the symmetry, before any score is computed, any
\* distance matrix is built or written and before R is started.
C13_MalformedMatrixStopsAfterReading ==
    /\ pg_files_read = 0 => substitution_matrix = <<>>
    /\ MatrixMalformed =>
          /\ pg_pc \in {"check_options", "check_files", "read_files", "label_sequences",
                       "load_matrix", "exit"}
          /\ pg_distance_mat = <<>>
          /\ ~dist_written
          /\ pg_backend_calls = 0
          /\ (pg_pc = "exit" /\ pg_files_read > 0) =>
                /\ pg_error \in MatrixErrors
                /\ pg_files_read = Len(argv.f)

\* the program stopped on an asymmetric matrix with two sequences read
\* from two files
C13_Witness ==
    /\ pg_pc = "exit"
    /\ pg_error = "matrix is not symetric"
    /\ MatrixMalformed
    /\ pg_files_read = 2
    /\ Len(pb_seq) = 2

\* the score matrix of the sequences read, its diagonal set to the smallest
\* self-score: what the program normalises
ProgFlatScores ==
    LET n == Len(pb_seq)
        raw == [c \in Cells(n) |->
                   compute_score(substitution_matrix,
                                 pb_seq[c[1] + 1].sequence, pb_seq[c[2] + 1].sequence).total]
    IN  FillDiagonal(raw, SetMin({raw[<<i, i>>] : i \in 0..(n - 1)}))

\* the fraction d is a number of [0, 1]
InUnitRange(d) ==
    \/ (d.den > 0 /\ 0 <= d.num /\ d.num <= d.den)
    \/ (d.den < 0 /\ d.den <= d.num /\ d.num <= 0)

\* C15: every distance of the matrix the program writes and sends to R is
\* 1 - (s - min_all) / (max_all - min_all) for the score s of its cell in
\* the diagonal-flattened score matrix, and lies in [0, 1], also when
\* min_all is negative.
C15_DistanceInUnitRange ==
    pg_distance_mat # <<>> =>
        LET flat == ProgFlatScores
            mini == MatMin(flat)
            maxi == MatMax(flat)
        IN  \A c \in DOMAIN pg_distance_mat :
                /\ InUnitRange(pg_distance_mat[c])
                /\ maxi # mini =>
                      pg_distance_mat[c].num * (maxi - mini) =
                          ((maxi - mini) - (flat[c] - mini)) * pg_distance_mat[c].den

\* C20: when the caller chooses no linkage method the clustering uses Ward
\* linkage, through hclust and through the program, and the program run
\* without --clusters asks for 5 clusters.
C20_WardAndFiveByDefault ==
    /\ (R_method # "" /\ method_arg = NotGiven) => Linkage(R_method) = "ward"
    /\ pg_backend_calls > 0 =>
          /\ Linkage(R_script.method) = "ward"
          /\ ~argv.clusters_nb.given => R_script.clusters = 5

\* R has run and has written on stderr or ended with a non-zero code
BackendFailed ==
    /\ pg_backend_calls > 0
    /\ (pg_proc.err # "" \/ pg_proc.code # 0)

\* C21: in the program, when R writes on its error stream or ends with a
\* non-zero code, the run ends with an error that carries that diagnostic
\* and no .PB.clust is written: a failure of the backend is never followed
\* by a normal report.
C21_BackendFailureStopsRun ==
    BackendFailed =>
        /\ pg_pc # "end"
        /\ clust_file = <<>>
        /\ pg_pc = "exit" => pg_error \in {pg_proc.err, "exit code != 0"}

\* the records of the files of the command line, in order: each header
\* with the sequence that follows it
RECURSIVE FileRecords(_)
FileRecords(files) ==
    IF files = <<>> THEN <<>>
    ELSE [j \in 1..Len(Head(files).sequences) |->
             [label |-> Header(j), sequence |-> Head(files).sequences[j]]]
         \o FileRecords(Tail(files))

\* C24: for FASTA files of r records in all, each a header line followed
\* by at least one sequence line, reading returns exactly r entries, the
\* i-th pairing the i-th header with the i-th sequence, the last record
\* included.
C24_EveryRecordRead ==
    pg_pc = "label_sequences" => pb_seq = FileRecords(options.f)

\* the lines of the report that carry the tag t, in order
TaggedLines(t) == SelectSeq(clust_file, LAMBDA line : line.tag = t)

\* C23 as claimed: the report lists the input sequences in input order,
\* each under its original identifier (the FASTA header).
C23_Original ==
    pg_pc = "end" =>
        LET records == FileRecords(argv.f)
            lines == TaggedLines("SEQ_CLU")
        IN  /\ Len(lines) = Len(records)
            /\ \A p \in 1..Len(lines) : lines[p].first = records[p].label

\* C23 amended: the report lists the sequences the program holds after
\* reading, in that order, each under its positional label L0, L1, ...
\* (not its FASTA header) with its cluster id, then the medoids by
\* ascending cluster id 1, 2, ..., each under the positional label of a
\* sequence of that cluster.
C23_ReportUnderPositionalLabels ==
    pg_pc = "end" =>
        LET lines == TaggedLines("SEQ_CLU")
            medoids == TaggedLines("CLU_MED")
        IN  /\ clust_file = lines \o medoids
            /\ Len(lines) = Len(pb_seq)
            /\ \A p \in 1..Len(lines) :
                  /\ lines[p].first = [l |-> p - 1]
                  /\ lines[p].first = pb_seq[p].label
                  /\ lines[p].second = pg_proc.out[2][p + 1]
            /\ Len(medoids) = Cardinality({lines[p].second : p \in 1..Len(lines)})
            /\ \A p \in 1..Len(medoids) :
                  /\ medoids[p].first = p
                  /\ \E q \in 1..Len(lines) :
                        /\ medoids[p].second = lines[q].first
                        /\ lines[q].second = p

\* a report on three sequences in two clusters, none of them held under
\* the header it had in its file
C23_Witness ==
    /\ pg_pc = "end"
    /\ Len(TaggedLines("SEQ_CLU")) = 3
    /\ Len(TaggedLines("CLU_MED")) = 2
    /\ \A p \in 1..3 : clust_file[p].first # FileRecords(argv.f)[p].label

----------------------------------------------------------------------------
(* Claims on matrix_to_single_digit (SpecDigit) *)

\* the argument holds at least two distinct values
TwoValues == MatMin(sd_matrix) # MatMax(sd_matrix)

\* what the result must be for the argument
SingleDigitResult ==
    (sd_result.status = "ok" /\ TwoValues) =>
        /\ DOMAIN sd_result.matrix = DOMAIN sd_matrix
        /\ \A c \in DOMAIN sd_matrix :
              /\ sd_result.matrix[c] \in 0..9
              /\ c[1] = c[2] => sd_result.matrix[c] = 0
              /\ sd_matrix[c] = MatMax(sd_matrix) => sd_result.matrix[c] = 0
              /\ (c[1] # c[2] /\ sd_matrix[c] = MatMin(sd_matrix)) => sd_result.matrix[c] = 9

\* C27: for every square matrix of similarity scores with at least two
\* distinct values, matrix_to_single_digit returns a matrix of integers of
\* [0, 9] with a diagonal of 0, where every cell of the largest similarity
\* is 0 and every cell of the smallest similarity off the diagonal is 9;
\* the argument is left as it was.
C27_SingleDigitDistances ==
    /\ []SingleDigitResult
    /\ [][sd_matrix' = sd_matrix]_vars

\* a result with a 9, a digit strictly between 0 and 9, and a diagonal cell
\* set to 0 although its similarity is not the largest
C27_Witness ==
    /\ sd_result.status = "ok"
    /\ TwoValues
    /\ \E c \in DOMAIN sd_matrix : c[1] # c[2] /\ sd_result.matrix[c] = 9
    /\ \E c \in DOMAIN sd_matrix : sd_result.matrix[c] \in 1..8
    /\ \E c \in DOMAIN sd_matrix : c[1] = c[2] /\ sd_matrix[c] # MatMax(sd_matrix)

----------------------------------------------------------------------------
(* Claims on load_substitution_matrix (SpecLoad) *)

LmEnded == lm_pc \in {"done", "failed"}

\* pairs (i, j) of a 16 x 16 table whose two cells differ as floats: they
\* are not the same number, or one of them is nan
AsymmetricPairs ==
    {c \in Cells(16) :
        \/ lm_file.table[c[1]][c[2]] # lm_file.table[c[2]][c[1]]
        \/ lm_file.table[c[1]][c[2]] = NaN}

\* C12: a matrix load_substitution_matrix returns has 16 rows of 16 cells
\* and M[i][j] = M[j][i] for all i, j. A table loadtxt parsed with any
\* other shape ends with the assertion error on the size, before any row
\* of the symmetry check; a 16 x 16 table with a pair of cells that differ
\* ends with the ValueError of the symmetry check, at the first such pair.
C12_LoadedMatrixSquareSymmetric ==
    /\ lm_result.status = "ok" =>
          /\ lm_file.shape = <<16, 16>>
          /\ lm_result.mat = lm_file.table
          /\ DOMAIN lm_result.mat = 0..15
          /\ \A i \in 0..15 : DOMAIN lm_result.mat[i] = 0..15
          /\ \A c \in Cells(16) : lm_result.mat[c[1]][c[2]] = lm_result.mat[c[2]][c[1]]
    /\ (LmEnded /\ lm_file.kind = "array" /\ lm_file.shape # <<16, 16>>) =>
          /\ lm_result.status = "AssertionError"
          /\ lm_i = 0
    /\ (lm_file.kind = "array" /\ lm_file.shape # <<16, 16>>) => lm_pc # "loop"
    /\ (LmEnded /\ lm_file.shape = <<16, 16>> /\ AsymmetricPairs # {}) =>
          /\ lm_result.status = "ValueError"
          /\ lm_result.idx \in AsymmetricPairs
          /\ \A c \in AsymmetricPairs : c = lm_result.idx \/ Before(lm_result.idx, c)

\* a 16 x 16 table whose only asymmetric pair is (1, 15) / (15, 1), refused
\* at row 1 after row 0 passed
C12_Witness ==
    /\ lm_pc = "failed"
    /\ lm_file.shape = <<16, 16>>
    /\ AsymmetricPairs = {<<1, 15>>, <<15, 1>>}
    /\ lm_result.status = "ValueError"
    /\ lm_result.idx = <<1, 15>>
    /\ lm_i = 1

\* the call ended on a 16 x 16 table with the error of the symmetry check
RejectedAsAsymmetric ==
    /\ LmEnded
    /\ lm_file.shape = <<16, 16>>
    /\ lm_result.status = "ValueError"

\* C28 as claimed: the pair (i, j) reported is the first offending pair in
\* row-major order, and therefore i < j.
C28_Original ==
    RejectedAsAsymmetric =>
        /\ lm_result.idx \in AsymmetricPairs
        /\ \A c \in AsymmetricPairs : ~Before(c, lm_result.idx)
        /\ lm_result.idx[1] < lm_result.idx[2]

\* C28 amended: every 16 x 16 table with an offending pair is rejected, and
\* the pair (i, j) reported is the first offending pair in row-major order:
\* M[i][j] != M[j][i] as floats and no pair before it offends. Hence
\* i <= j, and i = j only when M[i][i] is nan.
C28_FirstOffendingPair ==
    /\ (LmEnded /\ lm_file.shape = <<16, 16>> /\ AsymmetricPairs # {}) =>
          lm_result.status = "ValueError"
    /\ RejectedAsAsymmetric =>
          /\ lm_result.idx \in AsymmetricPairs
          /\ \A c \in AsymmetricPairs : ~Before(c, lm_result.idx)
          /\ lm_result.idx[1] <= lm_result.idx[2]
          /\ lm_result.idx[1] = lm_result.idx[2] =>
                lm_file.table[lm_result.idx[1]][lm_result.idx[2]] = NaN

\* a table rejected at the diagonal cell (15, 15), which holds nan, after
\* the rows 0 to 14 passed
C28_Witness ==
    /\ RejectedAsAsymmetric
    /\ lm_result.idx = <<15, 15>>
    /\ lm_file.table[15][15] = NaN
    /\ lm_i = 15

----------------------------------------------------------------------------
(* Claims on PBclust.compute_score (SpecCompute) *)

\* every symbol of s is a PB or the dummy block
OnlyBlocks(s) == \A p \in 1..Len(s) : IsWildcard(s[p]) \/ InNames(s[p])

\* the sum over the positions p..Len(s) at which neither symbol is the
\* dummy block of mat[s[p]][t[p]]
RECURSIVE PositionwiseSum(_, _, _, _)
PositionwiseSum(mat, s, t, p) ==
    IF p > Len(s) THEN 0
    ELSE (IF IsWildcard(s[p]) \/ IsWildcard(t[p]) THEN 0
          ELSE mat[NamesIndex(s[p])][NamesIndex(t[p])])
         + PositionwiseSum(mat, s, t, p + 1)

\* C16: for seq1 and seq2 of the same length made of PBs and dummy blocks,
\* compute_score returns the sum, over the positions where neither
\* sequence holds the dummy block, of matrix[seq1[p]][seq2[p]]: a dummy
\* block counts 0 at its position and leaves the other positions aligned.
C16_ScoresPositionByPosition ==
    (/\ cs_result.status \notin {"pending", "idle"}
     /\ Len(cs_seq1) = Len(cs_seq2)
     /\ OnlyBlocks(cs_seq1) /\ OnlyBlocks(cs_seq2))
    => /\ cs_result.status = "ok"
       /\ cs_result.total = PositionwiseSum(substitution_matrix, cs_seq1, cs_seq2, 1)

=============================================================================
